---- MODULE Spec2Model ----
(***************************************************************************)
(* Ribosome Decision Graph (src/RDG/RDG.py): the graph container, the      *)
(* splice engine (add_open_reading_frame, add_stop_codon_readthrough,      *)
(* add_frameshift) and the queries the splice engine relies on.            *)
(*                                                                         *)
(* A graph value g is a record                                             *)
(*   nodes    : node key -> Node record                                    *)
(*   edges    : edge key -> Edge record                                    *)
(*   defaults : the four list objects that are the default arguments of    *)
(*              Node.__init__ (one object per parameter, shared by every   *)
(*              Node built without that argument)                          *)
(*   exc      : "none", or the exception that left the running call        *)
(* Python lists are sequences, list.remove removes the first occurrence    *)
(* and raises ValueError when the value is absent.                         *)
(***************************************************************************)
EXTENDS Integers, Sequences, FiniteSets, TLC

\* nodes, edges, defaults: the graph; last: the last call and its outcome;
\* retired: the node keys and edge keys taken out of the tables so far;
\* edits: the number of calls made so far that count against MaxEdits or
\* MaxUpdates
VARIABLES nodes, edges, defaults, last, retired, edits

vars == <<nodes, edges, defaults, last, retired, edits>>

\* ---------------------------------------------------------------- bounds
\* splice calls are issued while the node table holds at most MaxNodes nodes
MaxNodes == 8

\* the calls that edit the container directly (add_node, add_edge,
\* remove_node, remove_edge, and the splice calls between them) are made at
\* most MaxEdits times in all, update_edge at most MaxUpdates times
MaxEdits == 3
MaxUpdates == 2

\* the splice calls that build the graphs for the query calls are issued
\* while the node table holds at most MaxQueryNodes nodes
MaxQueryNodes == 5

\* ------------------------------------------------------- program constants
locus_start == 0
locus_stop == 1000

\* arguments the callers are modelled to pass
StartPositions == {30, 150}
StopPositions == {100, 1000, 1001}

\* the positions read through, and the next stop positions behind them
ReadthroughPositions == {100, 1000}
NextStopPositions == {200, 1000, 1001}
Shifts == {1, 3}
\* <<reinitiation, upstream_limit>>
Policies == {<<TRUE, 0>>, <<FALSE, 0>>, <<FALSE, 1>>}

\* ----------------------------------------------------------- list helpers
Contains(s, x) == \E i \in 1..Len(s) : s[i] = x

SeqToSet(s) == {s[i] : i \in 1..Len(s)}

FirstIndex(s, x) == CHOOSE i \in 1..Len(s) : s[i] = x /\ \A j \in 1..(i - 1) : s[j] # x

\* list.remove(x) on a list that holds x
ListRemove(s, x) ==
    LET i == FirstIndex(s, x)
    IN  [j \in 1..(Len(s) - 1) |-> IF j < i THEN s[j] ELSE s[j + 1]]

MaxOf(S) == CHOOSE x \in S : \A y \in S : y <= x

RECURSIVE SortedSeq(_)
SortedSeq(S) ==
    IF S = {} THEN <<>>
    ELSE LET m == CHOOSE x \in S : \A y \in S : x <= y
         IN  <<m>> \o SortedSeq(S \ {m})

RECURSIVE SortedList(_)
\* sorted(list): the elements of s in ascending order, repeats kept
SortedList(s) ==
    IF s = <<>> THEN <<>>
    ELSE SelectSeq(SortedList(Tail(s)), LAMBDA x : x <= Head(s))
         \o <<Head(s)>>
         \o SelectSeq(SortedList(Tail(s)), LAMBDA x : x > Head(s))

\* ------------------------------------------------------------ Node, Edge
ListFields == {"input_edges", "output_edges", "input_nodes", "output_nodes"}

\* Node.__init__: a list argument that is not passed is bound to the
\* parameter's default object; `given` is the record of the lists passed.
Node(key, node_type, position, given) ==
    [key          |-> key,
     node_type    |-> node_type,
     node_start   |-> position,
     input_edges  |-> IF "input_edges" \in DOMAIN given THEN given.input_edges ELSE <<>>,
     output_edges |-> IF "output_edges" \in DOMAIN given THEN given.output_edges ELSE <<>>,
     input_nodes  |-> IF "input_nodes" \in DOMAIN given THEN given.input_nodes ELSE <<>>,
     output_nodes |-> IF "output_nodes" \in DOMAIN given THEN given.output_nodes ELSE <<>>,
     shared       |-> ListFields \ DOMAIN given]

EmptyLists ==
    [input_edges |-> <<>>, output_edges |-> <<>>, input_nodes |-> <<>>, output_nodes |-> <<>>]

Edge(key, edge_type, from_node, to_node, coordinates) ==
    [key |-> key, edge_type |-> edge_type, from_node |-> from_node,
     to_node |-> to_node, coordinates |-> coordinates]

\* the list object behind attribute f of node k
Field(g, k, f) ==
    IF f \in g.nodes[k].shared THEN g.defaults[f] ELSE g.nodes[k][f]

SetField(g, k, f, v) ==
    IF f \in g.nodes[k].shared
    THEN [g EXCEPT !.defaults[f] = v]
    ELSE [g EXCEPT !.nodes[k][f] = v]

\* list.append
ListAppendTo(g, k, f, x) ==
    IF g.exc # "none" THEN g ELSE SetField(g, k, f, Append(Field(g, k, f), x))

\* list.remove: ValueError when x is not in the list
ListRemoveFrom(g, k, f, x) ==
    IF g.exc # "none" THEN g
    ELSE IF Contains(Field(g, k, f), x)
         THEN SetField(g, k, f, ListRemove(Field(g, k, f), x))
         ELSE [g EXCEPT !.exc = "ValueError_remove"]

\* `if x in list: list.remove(x)`
RemoveIfPresent(g, k, f, x) ==
    IF g.exc # "none" THEN g
    ELSE IF Contains(Field(g, k, f), x)
    THEN SetField(g, k, f, ListRemove(Field(g, k, f), x))
    ELSE g

\* `if x not in list: list.append(y)`
AppendIfAbsent(g, k, f, x, y) ==
    IF g.exc # "none" \/ Contains(Field(g, k, f), x) THEN g ELSE ListAppendTo(g, k, f, y)

\* self.edges[edge].to_node = node
SetToNode(g, edge, node) ==
    IF g.exc # "none" THEN g ELSE [g EXCEPT !.edges[edge].to_node = node]

Raise(g, e) == [g EXCEPT !.exc = e]

\* a statement that is skipped once an exception is in flight
Then(g, h) == IF g.exc # "none" THEN g ELSE h

\* ------------------------------------------------------ graph construction
\* RDG.__init__ with nodes = None
FreshNodes ==
    (1 :> Node(1, "5_prime", 0, [output_edges |-> <<1>>, output_nodes |-> <<2>>]))
    @@ (2 :> Node(2, "3_prime", locus_stop - locus_start,
                  [input_edges |-> <<1>>, input_nodes |-> <<1>>]))

FreshEdges == (1 :> Edge(1, "untranslated", 1, 2, <<1, locus_stop - 1>>))

\* RDG.load_example
ExampleNodes ==
    (1 :> Node(1, "5_prime", 0, [output_edges |-> <<1>>, output_nodes |-> <<3>>]))
    @@ (2 :> Node(2, "3_prime", 1000, [input_edges |-> <<2>>, input_nodes |-> <<3>>]))
    @@ (3 :> Node(3, "start", 10,
                  [input_edges |-> <<1>>, output_edges |-> <<2, 3>>,
                   input_nodes |-> <<1>>, output_nodes |-> <<2, 4>>]))
    @@ (4 :> Node(4, "stop", 100,
                  [input_edges |-> <<3>>, output_edges |-> <<4>>,
                   input_nodes |-> <<3>>, output_nodes |-> <<5>>]))
    @@ (5 :> Node(5, "3_prime", 1000, [input_edges |-> <<4>>, input_nodes |-> <<4>>]))

ExampleEdges ==
    (1 :> Edge(1, "untranslated", 1, 3, <<1, 10 - 1>>))
    @@ (2 :> Edge(2, "untranslated", 3, 2, <<11, 1000 - 1>>))
    @@ (3 :> Edge(3, "translated", 3, 4, <<11, 100>>))
    @@ (4 :> Edge(4, "untranslated", 4, 5, <<101, 1000 - 1>>))

\* ------------------------------------------------------ container primitives
\* a new node key taken from the number of nodes
get_new_node_key_Count(g) == Cardinality(DOMAIN g.nodes) + 1

get_new_node_key(g) ==
    IF DOMAIN g.nodes # {} THEN MaxOf(DOMAIN g.nodes) + 1 ELSE 1

\* a new edge key taken from the number of edges
get_new_edge_key_Count(g) == Cardinality(DOMAIN g.edges) + 1

get_new_edge_key(g) ==
    IF DOMAIN g.edges # {} THEN MaxOf(DOMAIN g.edges) + 1 ELSE 1

\* dict iteration order: keys are inserted in increasing order
get_edge_keys(g) == SortedSeq(DOMAIN g.edges)

get_node_keys(g) == SortedSeq(DOMAIN g.nodes)

add_node(g, node) ==
    IF g.exc # "none" THEN g
    ELSE [g EXCEPT !.nodes = (node.key :> node) @@ g.nodes]

add_edge(g, edge, from_node_key, to_node_key) ==
    IF g.exc # "none" THEN g
    ELSE LET g1 == ListAppendTo(g, from_node_key, "output_edges", edge.key)
             g2 == ListAppendTo(g1, from_node_key, "output_nodes", to_node_key)
             g3 == ListAppendTo(g2, to_node_key, "input_edges", edge.key)
             g4 == ListAppendTo(g3, to_node_key, "input_nodes", from_node_key)
         IN  [g4 EXCEPT !.edges = (edge.key :> edge) @@ g4.edges]

\* update_edge that leaves the old from-node in the to-node's input_nodes
update_edge_KeepsOldParent(g, edge_key, new_from_node, new_to_node, new_coordinates) ==
    IF g.exc # "none" THEN g
    ELSE
    LET old_from_node == g.edges[edge_key].from_node
        old_to_node == g.edges[edge_key].to_node
        a1 == RemoveIfPresent(g, old_from_node, "output_edges", edge_key)
        a2 == AppendIfAbsent(a1, new_from_node, "output_edges", edge_key, edge_key)
        a3 == RemoveIfPresent(a2, old_from_node, "output_nodes", old_to_node)
        a4 == AppendIfAbsent(a3, new_from_node, "output_nodes", new_from_node, new_to_node)
        a6 == AppendIfAbsent(a4, new_to_node, "input_nodes", new_from_node, new_from_node)
        ga == IF old_from_node # new_from_node THEN a6 ELSE g
        b1 == RemoveIfPresent(ga, old_to_node, "input_edges", edge_key)
        b2 == AppendIfAbsent(b1, new_to_node, "input_edges", edge_key, edge_key)
        b3 == RemoveIfPresent(b2, old_to_node, "input_nodes", old_from_node)
        gb == IF old_to_node # new_to_node THEN b3 ELSE ga
    IN  [gb EXCEPT !.edges[edge_key].coordinates = new_coordinates,
                   !.edges[edge_key].from_node = new_from_node]

update_edge(g, edge_key, new_from_node, new_to_node, new_coordinates) ==
    IF g.exc # "none" THEN g
    ELSE
    LET old_from_node == g.edges[edge_key].from_node
        old_to_node == g.edges[edge_key].to_node
        a1 == RemoveIfPresent(g, old_from_node, "output_edges", edge_key)
        a2 == AppendIfAbsent(a1, new_from_node, "output_edges", edge_key, edge_key)
        a3 == RemoveIfPresent(a2, old_from_node, "output_nodes", old_to_node)
        a4 == AppendIfAbsent(a3, new_from_node, "output_nodes", new_from_node, new_to_node)
        a5 == RemoveIfPresent(a4, new_to_node, "input_nodes", old_from_node)
        a6 == AppendIfAbsent(a5, new_to_node, "input_nodes", new_from_node, new_from_node)
        ga == IF old_from_node # new_from_node THEN a6 ELSE g
        b1 == RemoveIfPresent(ga, old_to_node, "input_edges", edge_key)
        b2 == AppendIfAbsent(b1, new_to_node, "input_edges", edge_key, edge_key)
        b3 == RemoveIfPresent(b2, old_to_node, "input_nodes", old_from_node)
        gb == IF old_to_node # new_to_node THEN b3 ELSE ga
    IN  [gb EXCEPT !.edges[edge_key].coordinates = new_coordinates,
                   !.edges[edge_key].from_node = new_from_node]

\* self.edges.pop(edge_key)
PopEdge(g, edge_key) ==
    IF g.exc # "none" THEN g
    ELSE [g EXCEPT !.edges = [k \in DOMAIN g.edges \ {edge_key} |-> g.edges[k]]]

\* the second half of remove_edge: the lists of the to-node, then the pop;
\* self.nodes[to_node] raises KeyError when the to-node is gone
RemoveEdgeAtToNode(g, edge_key, from_node, to_node) ==
    IF g.exc # "none" THEN g
    ELSE IF to_node \notin DOMAIN g.nodes THEN Raise(g, "KeyError")
    ELSE PopEdge(
            RemoveIfPresent(
                RemoveIfPresent(g, to_node, "input_edges", edge_key),
                to_node, "input_nodes", from_node),
            edge_key)

remove_edge(g, edge_key) ==
    IF g.exc # "none" THEN g
    ELSE IF edge_key \notin DOMAIN g.edges THEN Raise(g, "KeyError")
    ELSE IF g.edges[edge_key].from_node \notin DOMAIN g.nodes THEN Raise(g, "KeyError")
    ELSE RemoveEdgeAtToNode(
            RemoveIfPresent(
                RemoveIfPresent(g, g.edges[edge_key].from_node, "output_edges", edge_key),
                g.edges[edge_key].from_node, "output_nodes", g.edges[edge_key].to_node),
            edge_key, g.edges[edge_key].from_node, g.edges[edge_key].to_node)

RECURSIVE RemoveEdgesLoop(_, _, _)
\* `for edge in sorted(...): self.remove_edge(edge)`
RemoveEdgesLoop(g, sorted_edges, i) ==
    IF i > Len(sorted_edges) \/ g.exc # "none" THEN g
    ELSE RemoveEdgesLoop(remove_edge(g, sorted_edges[i]), sorted_edges, i + 1)

\* self.nodes.pop(node_key)
PopNode(g, node_key) ==
    IF g.exc # "none" THEN g
    ELSE [g EXCEPT !.nodes = [k \in DOMAIN g.nodes \ {node_key} |-> g.nodes[k]]]

\* the loop over the input edges of remove_node, then the pop
RemoveNodeInputs(g, node_key) ==
    IF g.exc # "none" THEN g
    ELSE PopNode(RemoveEdgesLoop(g, SortedList(Field(g, node_key, "input_edges")), 1),
                 node_key)

remove_node(g, node_key) ==
    IF g.exc # "none" \/ node_key \notin DOMAIN g.nodes THEN g
    ELSE RemoveNodeInputs(
            RemoveEdgesLoop(g, SortedList(Field(g, node_key, "output_edges")), 1),
            node_key)

\* ------------------------------------------------------------ splice engine
\* start_node and stop_node are the keys of the two Node objects the caller
\* has already put into the node table
insert_translon(g, edge_key, start_node, stop_node) ==
    IF g.exc # "none" THEN g
    ELSE
    LET edge == g.edges[edge_key]
        start_pos == g.nodes[start_node].node_start
        stop_pos == g.nodes[stop_node].node_start
        five_prime_edge_coords == <<edge.coordinates[1], start_pos - 1>>
        coding_edge_coords == <<start_pos, stop_pos>>
        three_prime_edge_coords == <<stop_pos + 1, locus_stop>>
        five_prime == Edge(get_new_edge_key(g), "untranslated", edge.from_node,
                           start_node, five_prime_edge_coords)
        g1 == add_edge(g, five_prime, edge.from_node, start_node)
        coding == Edge(get_new_edge_key(g1), "translated", start_node, stop_node,
                       coding_edge_coords)
        g2 == add_node(g1, g1.nodes[stop_node])
        g3 == add_edge(g2, coding, start_node, stop_node)
        terminal_node == Node(get_new_node_key(g3), "3_prime", locus_stop, EmptyLists)
        three_prime == Edge(get_new_edge_key(g3), "untranslated", stop_node,
                            terminal_node.key, three_prime_edge_coords)
        g4 == add_node(g3, terminal_node)
        g5 == add_edge(g4, three_prime, stop_node, terminal_node.key)
    IN  update_edge(g5, edge_key, start_node, edge.to_node,
                    <<start_pos, g5.nodes[edge.to_node].node_start>>)

RECURSIVE EdgePathWalk(_, _, _)
\* the while loop of root_to_node_of_acyclic_edge_path; path is in walk order
EdgePathWalk(g, node, path) ==
    LET in_node == Field(g, node, "input_nodes")[1]
    IN  IF Field(g, in_node, "input_nodes") = <<>>
        THEN path
        ELSE EdgePathWalk(g, in_node, Append(path, Field(g, in_node, "input_edges")[1]))

Reverse(s) == [i \in 1..Len(s) |-> s[Len(s) + 1 - i]]

root_to_node_of_acyclic_edge_path(g, node) ==
    IF Field(g, node, "input_nodes") = <<>>
    THEN <<>>
    ELSE Reverse(EdgePathWalk(g, node, <<Field(g, node, "input_edges")[1]>>))

\* check_translation_upstream with a strict comparison against the limit
check_translation_upstream_Strict(g, from_node, upstream_limit) ==
    LET edge_path_to_node == root_to_node_of_acyclic_edge_path(g, from_node)
        number_of_translated_regions ==
            Cardinality({i \in 1..Len(edge_path_to_node) :
                            g.edges[edge_path_to_node[i]].edge_type = "translated"})
    IN  IF number_of_translated_regions < upstream_limit THEN FALSE ELSE TRUE

\* check_translation_upstream that allows one translon more than the limit
check_translation_upstream_OneMore(g, from_node, upstream_limit) ==
    LET edge_path_to_node == root_to_node_of_acyclic_edge_path(g, from_node)
        number_of_translated_regions ==
            Cardinality({i \in 1..Len(edge_path_to_node) :
                            g.edges[edge_path_to_node[i]].edge_type = "translated"})
    IN  IF number_of_translated_regions <= upstream_limit + 1 THEN FALSE ELSE TRUE

check_translation_upstream(g, from_node, upstream_limit) ==
    LET edge_path_to_node == root_to_node_of_acyclic_edge_path(g, from_node)
        number_of_translated_regions ==
            Cardinality({i \in 1..Len(edge_path_to_node) :
                            g.edges[edge_path_to_node[i]].edge_type = "translated"})
    IN  IF number_of_translated_regions <= upstream_limit THEN FALSE ELSE TRUE

InRange(x, coordinates) == coordinates[1] <= x /\ x < coordinates[2]

\* clash detection that does not look at the edge type
OrfClashingEdges_AnyType(g, start_codon_position) ==
    LET existing_edges == get_edge_keys(g)
    IN  SelectSeq([i \in 1..Len(existing_edges) |->
                      <<existing_edges[i], g.edges[existing_edges[i]].from_node>>],
                  LAMBDA c : InRange(start_codon_position, g.edges[c[1]].coordinates))

\* the (edge, upstream_node) pairs collected before the first mutation
OrfClashingEdges(g, start_codon_position) ==
    LET existing_edges == get_edge_keys(g)
    IN  SelectSeq([i \in 1..Len(existing_edges) |->
                      <<existing_edges[i], g.edges[existing_edges[i]].from_node>>],
                  LAMBDA c : /\ InRange(start_codon_position, g.edges[c[1]].coordinates)
                             /\ g.edges[c[1]].edge_type # "translated")

\* body of the loop over the clashing edges
OrfSpliceOne(g, c, start_codon_position, stop_codon_position, reinitiation, upstream_limit) ==
    IF reinitiation \/ ~check_translation_upstream(g, c[2], upstream_limit)
    THEN LET start_node == Node(get_new_node_key(g), "start", start_codon_position, EmptyLists)
             g1 == add_node(g, start_node)
             stop_node == Node(get_new_node_key(g1), "stop", stop_codon_position, EmptyLists)
             g2 == add_node(g1, stop_node)
         IN  insert_translon(g2, c[1], start_node.key, stop_node.key)
    ELSE g

RECURSIVE OrfSpliceLoop(_, _, _, _, _, _, _)
OrfSpliceLoop(g, clashing, i, start_codon_position, stop_codon_position, reinitiation, upstream_limit) ==
    IF i > Len(clashing) \/ g.exc # "none" THEN g
    ELSE OrfSpliceLoop(
            OrfSpliceOne(g, clashing[i], start_codon_position, stop_codon_position,
                         reinitiation, upstream_limit),
            clashing, i + 1, start_codon_position, stop_codon_position,
            reinitiation, upstream_limit)

\* add_open_reading_frame whose bounds check also rejects locus_stop itself
add_open_reading_frame_OffByOne(g, start_codon_position, stop_codon_position, reinitiation, upstream_limit) ==
    IF stop_codon_position >= locus_stop
    THEN Raise(g, "Exception_bounds")
    ELSE OrfSpliceLoop(g, OrfClashingEdges(g, start_codon_position), 1,
                       start_codon_position, stop_codon_position,
                       reinitiation, upstream_limit)

add_open_reading_frame(g, start_codon_position, stop_codon_position, reinitiation, upstream_limit) ==
    IF stop_codon_position > locus_stop
    THEN Raise(g, "Exception_bounds")
    ELSE OrfSpliceLoop(g, OrfClashingEdges(g, start_codon_position), 1,
                       start_codon_position, stop_codon_position,
                       reinitiation, upstream_limit)

\* the keys of the nodes of node_type at position, in dict order, or the
\* ValueError that get_key_from_position raises
NodesOfType(g, node_type) ==
    SelectSeq(get_node_keys(g), LAMBDA k : g.nodes[k].node_type = node_type)

get_key_from_position(g, position, node_type) ==
    SelectSeq(NodesOfType(g, node_type), LAMBDA k : g.nodes[k].node_start = position)

\* get_key_from_position with one message for both misses
get_key_from_position_error_OneMessage(g, position, node_type) ==
    IF get_key_from_position(g, position, node_type) = <<>> THEN "ValueError_no_type"
    ELSE "none"

get_key_from_position_error(g, position, node_type) ==
    IF NodesOfType(g, node_type) = <<>> THEN "ValueError_no_type"
    ELSE IF get_key_from_position(g, position, node_type) = <<>> THEN "ValueError_no_position"
    ELSE "none"

\* the loop body with the relabelling of the stop node that is read through
ScrSpliceOne_Relabel(g, readthrough_key, next_stop_codon_position) ==
    LET new_stop_node == Node(get_new_node_key(g), "stop", next_stop_codon_position, EmptyLists)
        g1 == add_node(g, new_stop_node)
        coding == Edge(get_new_edge_key(g1), "translated", readthrough_key, new_stop_node.key,
                       <<g1.nodes[readthrough_key].node_start, next_stop_codon_position>>)
        g2a == add_edge(g1, coding, readthrough_key, new_stop_node.key)
        g2 == [g2a EXCEPT !.nodes[readthrough_key].node_type = "readthrough_stop"]
        three_prime_terminal_key == Field(g2, readthrough_key, "output_nodes")[1]
        terminal_node == Node(get_new_node_key(g2), "3_prime",
                              g2.nodes[three_prime_terminal_key].node_start, EmptyLists)
        g3 == add_node(g2, terminal_node)
        three_prime == Edge(get_new_edge_key(g3), "untranslated", new_stop_node.key,
                            terminal_node.key,
                            <<new_stop_node.node_start,
                              g3.nodes[three_prime_terminal_key].node_start>>)
    IN  add_edge(g3, three_prime, new_stop_node.key, terminal_node.key)

\* body of the loop over the stop nodes found at the readthrough position
ScrSpliceOne(g, readthrough_key, next_stop_codon_position) ==
    LET new_stop_node == Node(get_new_node_key(g), "stop", next_stop_codon_position, EmptyLists)
        g1 == add_node(g, new_stop_node)
        coding == Edge(get_new_edge_key(g1), "translated", readthrough_key, new_stop_node.key,
                       <<g1.nodes[readthrough_key].node_start, next_stop_codon_position>>)
        g2 == add_edge(g1, coding, readthrough_key, new_stop_node.key)
        three_prime_terminal_key == Field(g2, readthrough_key, "output_nodes")[1]
        terminal_node == Node(get_new_node_key(g2), "3_prime",
                              g2.nodes[three_prime_terminal_key].node_start, EmptyLists)
        g3 == add_node(g2, terminal_node)
        three_prime == Edge(get_new_edge_key(g3), "untranslated", new_stop_node.key,
                            terminal_node.key,
                            <<new_stop_node.node_start,
                              g3.nodes[three_prime_terminal_key].node_start>>)
    IN  add_edge(g3, three_prime, new_stop_node.key, terminal_node.key)

RECURSIVE ScrSpliceLoop(_, _, _, _)
ScrSpliceLoop(g, readthrough_codon_keys, i, next_stop_codon_position) ==
    IF i > Len(readthrough_codon_keys) \/ g.exc # "none" THEN g
    ELSE ScrSpliceLoop(ScrSpliceOne(g, readthrough_codon_keys[i], next_stop_codon_position),
                       readthrough_codon_keys, i + 1, next_stop_codon_position)

add_stop_codon_readthrough(g, readthrough_codon_position, next_stop_codon_position) ==
    IF next_stop_codon_position > locus_stop
    THEN Raise(g, "Exception_bounds")
    ELSE IF get_key_from_position_error(g, readthrough_codon_position, "stop") # "none"
    THEN Raise(g, get_key_from_position_error(g, readthrough_codon_position, "stop"))
    ELSE ScrSpliceLoop(g, get_key_from_position(g, readthrough_codon_position, "stop"), 1,
                       next_stop_codon_position)

\* the (edge, upstream_node) pairs collected before the first mutation
FsClashingEdges(g, fs_position) ==
    LET existing_edges == get_edge_keys(g)
    IN  SelectSeq([i \in 1..Len(existing_edges) |->
                      <<existing_edges[i], g.edges[existing_edges[i]].from_node>>],
                  LAMBDA c : /\ InRange(fs_position, g.edges[c[1]].coordinates)
                             /\ g.edges[c[1]].edge_type = "translated")

\* the rewiring without the assignment of the clashing edge's to_node
FsRewire_NoRewire(g, edge, upstream_node, shift_node_key, old_stop_node_key, old_stop_edge_key) ==
    RemoveIfPresent(
        ListAppendTo(
            ListRemoveFrom(
                ListAppendTo(
                    ListRemoveFrom(g, upstream_node, "output_nodes", old_stop_node_key),
                    upstream_node, "output_nodes", shift_node_key),
                old_stop_node_key, "input_edges", edge),
            old_stop_node_key, "input_edges", old_stop_edge_key),
        old_stop_node_key, "input_nodes", upstream_node)

\* the references of the upstream node, the clashing edge
\* and the old stop node are pointed at the frameshift node
FsRewire(g, edge, upstream_node, shift_node_key, old_stop_node_key, old_stop_edge_key) ==
    RemoveIfPresent(
        ListAppendTo(
            ListRemoveFrom(
                SetToNode(
                    ListAppendTo(
                        ListRemoveFrom(g, upstream_node, "output_nodes", old_stop_node_key),
                        upstream_node, "output_nodes", shift_node_key),
                    edge, shift_node_key),
                old_stop_node_key, "input_edges", edge),
            old_stop_node_key, "input_edges", old_stop_edge_key),
        old_stop_node_key, "input_nodes", upstream_node)

\* the 3' terminal node and the untranslated edge to it
FsAddTerminal(g, new_stop_node_key) ==
    add_edge(add_node(g, Node(get_new_node_key(g), "3_prime", locus_stop, EmptyLists)),
             Edge(get_new_edge_key(g), "untranslated", new_stop_node_key,
                  get_new_node_key(g),
                  <<g.nodes[new_stop_node_key].node_start, locus_stop>>),
             new_stop_node_key, get_new_node_key(g))

\* the new stop node and the translated edge to it
FsAddNewStop(g, shift_node_key, next_stop_codon_position) ==
    FsAddTerminal(
        add_edge(add_node(g, Node(get_new_node_key(g), "stop", next_stop_codon_position,
                                  EmptyLists)),
                 Edge(get_new_edge_key(g), "translated", shift_node_key, get_new_node_key(g),
                      <<g.nodes[shift_node_key].node_start, next_stop_codon_position>>),
                 shift_node_key, get_new_node_key(g)),
        get_new_node_key(g))

\* the edge from the frameshift node to the old stop node,
\* then the rewiring
FsAddOldStopEdge(g, edge, upstream_node, shift_node_key, shift, next_stop_codon_position) ==
    FsAddNewStop(
        FsRewire(
            add_edge(g,
                     Edge(get_new_edge_key(g), "translated", shift_node_key,
                          g.edges[edge].to_node,
                          <<g.nodes[shift_node_key].node_start + shift,
                            g.nodes[g.edges[edge].to_node].node_start>>),
                     shift_node_key, g.edges[edge].to_node),
            edge, upstream_node, shift_node_key, g.edges[edge].to_node, get_new_edge_key(g)),
        shift_node_key, next_stop_codon_position)

\* body of the loop over the clashing translated edges
FsSpliceOne(g, c, fs_position, next_stop_codon_position, shift) ==
    FsAddOldStopEdge(
        add_node(g, Node(get_new_node_key(g), "frameshift", fs_position, EmptyLists)),
        c[1], c[2], get_new_node_key(g), shift, next_stop_codon_position)

RECURSIVE FsSpliceLoop(_, _, _, _, _, _)
FsSpliceLoop(g, clashing, i, fs_position, next_stop_codon_position, shift) ==
    IF i > Len(clashing) \/ g.exc # "none" THEN g
    ELSE FsSpliceLoop(FsSpliceOne(g, clashing[i], fs_position, next_stop_codon_position, shift),
                      clashing, i + 1, fs_position, next_stop_codon_position, shift)

add_frameshift(g, fs_position, next_stop_codon_position, shift) ==
    IF next_stop_codon_position > locus_stop
    THEN Raise(g, "Exception_bounds")
    ELSE FsSpliceLoop(g, FsClashingEdges(g, fs_position), 1,
                      fs_position, next_stop_codon_position, shift)

\* ------------------------------------------------------------------ queries
get_branch_points(g) ==
    SelectSeq(get_node_keys(g), LAMBDA n : Len(Field(g, n, "output_edges")) > 1)

get_endpoints(g) ==
    SelectSeq(get_node_keys(g),
              LAMBDA n : Len(Field(g, n, "output_edges")) = 0 /\ g.nodes[n].node_type = "3_prime")

get_startpoints(g) ==
    SelectSeq(get_node_keys(g),
              LAMBDA n : Len(Field(g, n, "input_edges")) = 0 /\ g.nodes[n].node_type = "5_prime")

\* get_start_nodes that looks for start nodes with a single output edge
get_start_nodes_SingleOutput(g) ==
    SelectSeq(get_node_keys(g),
              LAMBDA n : Len(Field(g, n, "output_edges")) = 1 /\ g.nodes[n].node_type = "start")

get_start_nodes(g) ==
    SelectSeq(get_node_keys(g),
              LAMBDA n : Len(Field(g, n, "output_edges")) = 2 /\ g.nodes[n].node_type = "start")

get_frameshifts(g) ==
    SelectSeq(get_node_keys(g), LAMBDA n : g.nodes[n].node_type = "frameshift")

\* `if translon not in translons: translons.append(translon)`
AppendTranslon(translons, translon) ==
    IF Contains(translons, translon) THEN translons ELSE Append(translons, translon)

RECURSIVE ReadthroughTranslons(_, _, _, _, _)
\* the loop over the output nodes of a stop node that follows start directly
ReadthroughTranslons(g, start, readthrough_downstream_nodes, j, translons) ==
    IF j > Len(readthrough_downstream_nodes) THEN translons
    ELSE ReadthroughTranslons(g, start, readthrough_downstream_nodes, j + 1,
            IF g.nodes[readthrough_downstream_nodes[j]].node_type = "stop"
            THEN AppendTranslon(translons,
                                <<g.nodes[start].node_start,
                                  g.nodes[readthrough_downstream_nodes[j]].node_start>>)
            ELSE translons)

RECURSIVE FrameshiftTranslons_Flat(_, _, _, _, _, _)
\* the loop over the output nodes of a frameshift node, emitting (start, stop)
\* without the frameshift position
FrameshiftTranslons_Flat(g, start, candidate_stop, fs_downstream_nodes, j, translons) ==
    IF j > Len(fs_downstream_nodes) THEN translons
    ELSE FrameshiftTranslons_Flat(g, start, candidate_stop, fs_downstream_nodes, j + 1,
            IF g.nodes[fs_downstream_nodes[j]].node_type = "stop"
            THEN AppendTranslon(translons,
                                <<g.nodes[start].node_start,
                                  g.nodes[fs_downstream_nodes[j]].node_start>>)
            ELSE translons)

RECURSIVE FrameshiftTranslons(_, _, _, _, _, _)
\* the loop over the output nodes of a frameshift node that follows start
FrameshiftTranslons(g, start, candidate_stop, fs_downstream_nodes, j, translons) ==
    IF j > Len(fs_downstream_nodes) THEN translons
    ELSE FrameshiftTranslons(g, start, candidate_stop, fs_downstream_nodes, j + 1,
            IF g.nodes[fs_downstream_nodes[j]].node_type = "stop"
            THEN AppendTranslon(translons,
                                <<g.nodes[start].node_start,
                                  g.nodes[candidate_stop].node_start,
                                  g.nodes[fs_downstream_nodes[j]].node_start>>)
            ELSE translons)

\* the body of the loop over the output nodes of a start node, without the
\* search for a second stop behind the first
CandidateTranslons_NoReadthrough(g, start, candidate_stop, translons) ==
    IF g.nodes[candidate_stop].node_type = "stop"
    THEN Append(translons, <<g.nodes[start].node_start, g.nodes[candidate_stop].node_start>>)
    ELSE IF g.nodes[candidate_stop].node_type = "frameshift"
    THEN FrameshiftTranslons(g, start, candidate_stop,
                             Field(g, candidate_stop, "output_nodes"), 1, translons)
    ELSE translons

\* the body of the loop over the output nodes of a start node
CandidateTranslons(g, start, candidate_stop, translons) ==
    IF g.nodes[candidate_stop].node_type = "stop"
    THEN ReadthroughTranslons(g, start, Field(g, candidate_stop, "output_nodes"), 1,
            Append(translons,
                   <<g.nodes[start].node_start, g.nodes[candidate_stop].node_start>>))
    ELSE IF g.nodes[candidate_stop].node_type = "frameshift"
    THEN FrameshiftTranslons(g, start, candidate_stop,
                             Field(g, candidate_stop, "output_nodes"), 1, translons)
    ELSE translons

RECURSIVE StartTranslons(_, _, _, _, _)
\* the loop over the output nodes of one start node
StartTranslons(g, start, downstream_nodes, i, translons) ==
    IF i > Len(downstream_nodes) THEN translons
    ELSE StartTranslons(g, start, downstream_nodes, i + 1,
                        CandidateTranslons(g, start, downstream_nodes[i], translons))

RECURSIVE TranslonsLoop(_, _, _, _)
\* the loop over the translation starts
TranslonsLoop(g, translation_starts, i, translons) ==
    IF i > Len(translation_starts) THEN translons
    ELSE TranslonsLoop(g, translation_starts, i + 1,
            StartTranslons(g, translation_starts[i],
                           Field(g, translation_starts[i], "output_nodes"), 1, translons))

get_translons(g) == TranslonsLoop(g, get_start_nodes(g), 1, <<>>)

RECURSIVE NodePathWalk(_, _, _)
\* the while loop of root_to_node_of_acyclic_node_path; path is in walk order
NodePathWalk(g, node, path) ==
    LET in_node == Field(g, node, "input_nodes")[1]
    IN  IF Field(g, in_node, "input_nodes") = <<>>
        THEN Append(path, in_node)
        ELSE NodePathWalk(g, in_node, Append(path, in_node))

\* input_nodes[0] of a node without input nodes raises IndexError
root_to_node_of_acyclic_node_path_error(g, node) ==
    IF Field(g, node, "input_nodes") = <<>> THEN "IndexError" ELSE "none"

\* the list returned; <<>> stands for no return value when the call raises
root_to_node_of_acyclic_node_path(g, node) ==
    IF root_to_node_of_acyclic_node_path_error(g, node) # "none"
    THEN <<>>
    ELSE Reverse(NodePathWalk(g, node, <<node>>))

RECURSIVE UniquePathsLoop(_, _, _, _)
\* the loop over the endpoints, `if path_to_root not in paths: paths.append`
UniquePathsLoop(g, terminal_nodes, i, paths) ==
    IF i > Len(terminal_nodes) THEN paths
    ELSE UniquePathsLoop(g, terminal_nodes, i + 1,
            IF Contains(paths, root_to_node_of_acyclic_node_path(g, terminal_nodes[i]))
            THEN paths
            ELSE Append(paths, root_to_node_of_acyclic_node_path(g, terminal_nodes[i])))

get_unique_paths_error(g) ==
    IF \E n \in SeqToSet(get_endpoints(g)) :
          root_to_node_of_acyclic_node_path_error(g, n) # "none"
    THEN "IndexError" ELSE "none"

\* the list returned; <<>> stands for no return value when the call raises
get_unique_paths(g) ==
    IF get_unique_paths_error(g) # "none" THEN <<>>
    ELSE UniquePathsLoop(g, get_endpoints(g), 1, <<>>)

NoNode(e) == [exc |-> e, out |-> 0]

RECURSIVE get_upstream_branchpoint_SkipsParent(_, _, _)
\* get_upstream_branchpoint that goes on from the parent without looking at
\* the number of its output nodes
get_upstream_branchpoint_SkipsParent(g, node, depth) ==
    IF depth = 0 THEN NoNode("RecursionError")
    ELSE IF Contains(get_startpoints(g), node) THEN [exc |-> "none", out |-> node]
    ELSE IF Field(g, node, "input_nodes") = <<>> THEN NoNode("IndexError")
    ELSE get_upstream_branchpoint_SkipsParent(g, Field(g, node, "input_nodes")[1], depth - 1)

RECURSIVE get_upstream_branchpoint(_, _, _)
\* get_upstream_branchpoint(node): exc is "none" and out the key returned, or
\* exc is the exception raised; depth is the number of nested calls left
get_upstream_branchpoint(g, node, depth) ==
    IF depth = 0 THEN NoNode("RecursionError")
    ELSE IF Contains(get_startpoints(g), node) THEN [exc |-> "none", out |-> node]
    ELSE IF Field(g, node, "input_nodes") = <<>> THEN NoNode("IndexError")
    ELSE IF Field(g, node, "input_nodes")[1] \notin DOMAIN g.nodes THEN NoNode("KeyError")
    ELSE IF Len(Field(g, Field(g, node, "input_nodes")[1], "output_nodes")) = 1
         THEN get_upstream_branchpoint(g, Field(g, node, "input_nodes")[1], depth - 1)
         ELSE [exc |-> "none", out |-> Field(g, node, "input_nodes")[1]]

\* ------------------------------------------------------------------- newick
\* The string that newick returns is modelled as the sequence of its tokens:
\* the punctuation marks ( ) , : ; and the decimal numbers (node keys and
\* branch lengths alike).
Sym(s) == [sym |-> s, num |-> 0]

Num(n) == [sym |-> "int", num |-> n]

NoString(e) == [exc |-> e, out |-> <<>>]

\* the branch length measured from the root of the path
BranchLength_FromRoot(g, node) ==
    g.nodes[node].node_start
        - g.nodes[root_to_node_of_acyclic_node_path(g, node)[1]].node_start

\* start - self.nodes[path_to_root[-2]].node_start
BranchLength(g, node) ==
    g.nodes[node].node_start
        - g.nodes[root_to_node_of_acyclic_node_path(g, node)[
              Len(root_to_node_of_acyclic_node_path(g, node)) - 1]].node_start

\* f"{node}:{branch_length}"
NewickEndpoint(g, node) ==
    IF root_to_node_of_acyclic_node_path_error(g, node) # "none"
    THEN NoString(root_to_node_of_acyclic_node_path_error(g, node))
    ELSE [exc |-> "none", out |-> <<Num(node), Sym(":"), Num(BranchLength(g, node))>>]

\* f"({','.join(child_newick_strings)}){node}", the branch length unless the
\* node is the root, and the semicolon when it is; c is the outcome of the
\* loop over the children
NewickInternal(g, node, root, c) ==
    IF c.exc # "none" THEN c
    ELSE IF root # node /\ root_to_node_of_acyclic_node_path_error(g, node) # "none"
    THEN NoString(root_to_node_of_acyclic_node_path_error(g, node))
    ELSE [exc |-> "none",
          out |-> <<Sym("(")>> \o c.out \o <<Sym(")"), Num(node)>>
                  \o (IF root # node THEN <<Sym(":"), Num(BranchLength(g, node))>> ELSE <<>>)
                  \o (IF node = root THEN <<Sym(";")>> ELSE <<>>)]

\* ','.join: r is the string of the i-th child
NewickJoin(acc, i, r) ==
    IF i = 1 THEN r.out ELSE acc \o <<Sym(",")>> \o r.out

RECURSIVE NewickNode(_, _, _, _)
RECURSIVE NewickChildren(_, _, _, _, _, _)
RECURSIVE NewickNextChild(_, _, _, _, _, _, _)

\* one recursive call of newick(node, root); depth is the number of calls
\* that the interpreter still allows (RecursionError beyond it), self.nodes[node]
\* is a KeyError for a key that is not in the node table
NewickNode(g, node, root, depth) ==
    IF depth = 0 THEN NoString("RecursionError")
    ELSE IF Contains(get_endpoints(g), node) THEN NewickEndpoint(g, node)
    ELSE IF node \notin DOMAIN g.nodes THEN NoString("KeyError")
    ELSE NewickInternal(g, node, root,
                        NewickChildren(g, Field(g, node, "output_nodes"), 1, root,
                                       depth - 1, <<>>))

\* `for child in children: child_newick_strings.append(self.newick(child, root))`
NewickChildren(g, children, i, root, depth, acc) ==
    IF i > Len(children) THEN [exc |-> "none", out |-> acc]
    ELSE NewickNextChild(g, children, i, root, depth, acc,
                         NewickNode(g, children[i], root, depth))

NewickNextChild(g, children, i, root, depth, acc, r) ==
    IF r.exc # "none" THEN r
    ELSE NewickChildren(g, children, i + 1, root, depth, NewickJoin(acc, i, r))

\* the calls nest deeper than the number of nodes only on a cycle
NewickDepth(g) == Cardinality(DOMAIN g.nodes) + 1

\* newick that starts at the first startpoint however many there are
newick_FirstStartpoint(g) ==
    IF Len(get_startpoints(g)) = 0 THEN NoString("IndexError")
    ELSE NewickNode(g, get_startpoints(g)[1], get_startpoints(g)[1], NewickDepth(g))

\* newick(): exc is "none" and out the string returned, or exc is the
\* exception raised
newick(g) ==
    IF Len(get_startpoints(g)) > 1 THEN NoString("ValueError_startpoints")
    ELSE IF Len(get_startpoints(g)) = 0 THEN NoString("IndexError")
    ELSE NewickNode(g, get_startpoints(g)[1], get_startpoints(g)[1], NewickDepth(g))

\* -------------------------------------------------------------------- prune
\* While prune runs, the graph record carries a fifth field, dead: the
\* output_nodes list of every node that prune has taken out of the node
\* table, as it was when the node was popped. A loop of an enclosing call that
\* iterates such a list still reads it.
NoDead == [k \in {} |-> <<>>]

\* the list comprehension over self.nodes
PruneAffected(g, branch_position) ==
    SelectSeq(get_node_keys(g), LAMBDA n : g.nodes[n].node_start = branch_position)

\* the list object that `for downstream_node in self.nodes[node].output_nodes`
\* iterates, as it is now
OutputNodesNow(g, node) ==
    IF node \in DOMAIN g.nodes THEN Field(g, node, "output_nodes") ELSE g.dead[node]

\* the graph of remove_node just before self.nodes.pop(node_key)
RemoveNodeBeforePop(g, node_key) ==
    RemoveEdgesLoop(
        RemoveEdgesLoop(g, SortedList(Field(g, node_key, "output_edges")), 1),
        SortedList(Field(RemoveEdgesLoop(g, SortedList(Field(g, node_key, "output_edges")), 1),
                         node_key, "input_edges")),
        1)

\* self.remove_node(node) inside prune
PruneRemoveNode(g, node) ==
    IF g.exc # "none" \/ node \notin DOMAIN g.nodes THEN g
    ELSE IF remove_node(g, node).exc # "none" THEN remove_node(g, node)
    ELSE [remove_node(g, node) EXCEPT
            !.dead = (node :> Field(RemoveNodeBeforePop(g, node), node, "output_nodes"))
                     @@ g.dead]

RECURSIVE PruneRemoveLoop(_, _, _)
\* `for node in affected_nodes: self.remove_node(node)`
PruneRemoveLoop(g, affected_nodes, i) ==
    IF g.exc # "none" \/ i > Len(affected_nodes) THEN g
    ELSE PruneRemoveLoop(PruneRemoveNode(g, affected_nodes[i]), affected_nodes, i + 1)

RECURSIVE PruneCall(_, _, _)
RECURSIVE PruneDownstreamLoop(_, _, _, _)
RECURSIVE PruneAffectedLoop(_, _, _, _)

\* `for downstream_node in self.nodes[node].output_nodes:
\*      self.prune(self.nodes[downstream_node].node_start)`; j is the index the
\* iterator has reached in the list, which the nested calls may have shortened
PruneDownstreamLoop(g, node, j, calls) ==
    IF g.exc # "none" \/ j > Len(OutputNodesNow(g, node)) THEN g
    ELSE IF OutputNodesNow(g, node)[j] \notin DOMAIN g.nodes THEN Raise(g, "KeyError")
    ELSE PruneDownstreamLoop(
            PruneCall(g, g.nodes[OutputNodesNow(g, node)[j]].node_start, calls),
            node, j + 1, calls)

\* `for node in affected_nodes:` around the loop above
PruneAffectedLoop(g, affected_nodes, i, calls) ==
    IF g.exc # "none" \/ i > Len(affected_nodes) THEN g
    ELSE IF affected_nodes[i] \notin DOMAIN g.nodes THEN Raise(g, "KeyError")
    ELSE PruneAffectedLoop(PruneDownstreamLoop(g, affected_nodes[i], 1, calls),
                           affected_nodes, i + 1, calls)

\* one call of prune; calls holds the (position, graph) pairs of the calls
\* that enclose it. A call with the position and the graph of an enclosing
\* call repeats that call and so nests without end: RecursionError
PruneCall(g, branch_position, calls) ==
    IF g.exc # "none" THEN g
    ELSE IF <<branch_position, g>> \in calls THEN Raise(g, "RecursionError")
    ELSE PruneRemoveLoop(
            PruneAffectedLoop(g, PruneAffected(g, branch_position), 1,
                              calls \cup {<<branch_position, g>>}),
            PruneAffected(g, branch_position), 1)

\* the graph that PruneCall leaves, without the field dead
PruneResult(h) ==
    [nodes |-> h.nodes, edges |-> h.edges, defaults |-> h.defaults, exc |-> h.exc]

prune(g, branch_position) ==
    PruneResult(PruneCall([nodes |-> g.nodes, edges |-> g.edges, defaults |-> g.defaults,
                           exc |-> g.exc, dead |-> NoDead],
                          branch_position, {}))

\* ------------------------------------------------------------ state machine
Graph ==[nodes |-> nodes, edges |-> edges, defaults |-> defaults, exc |-> "none"]

NoCall == [op |-> "new", a |-> 0, b |-> 0, shift |-> 0, reinitiation |-> FALSE,
           upstream_limit |-> 0, exc |-> "none"]

Init ==
    /\ \/ nodes = FreshNodes /\ edges = FreshEdges /\ last = NoCall
       \/ nodes = ExampleNodes /\ edges = ExampleEdges
          /\ last = [NoCall EXCEPT !.op = "load_example"]
    /\ defaults = EmptyLists
    /\ retired = [nodes |-> {}, edges |-> {}]
    /\ edits = 0

CanCall == Cardinality(DOMAIN nodes) <= MaxNodes

Commit(g) ==
    /\ nodes' = g.nodes
    /\ edges' = g.edges
    /\ defaults' = g.defaults

AddOpenReadingFrame ==
    /\ CanCall
    /\ \E s \in StartPositions, p \in StopPositions, pol \in Policies :
          LET g == add_open_reading_frame(Graph, s, p, pol[1], pol[2])
          IN  /\ Commit(g)
              /\ last' = [op |-> "add_open_reading_frame", a |-> s, b |-> p, shift |-> 0,
                          reinitiation |-> pol[1], upstream_limit |-> pol[2], exc |-> g.exc]
              /\ UNCHANGED <<retired, edits>>

AddStopCodonReadthrough ==
    /\ CanCall
    /\ \E r \in ReadthroughPositions, p \in NextStopPositions :
          LET g == add_stop_codon_readthrough(Graph, r, p)
          IN  /\ Commit(g)
              /\ last' = [op |-> "add_stop_codon_readthrough", a |-> r, b |-> p, shift |-> 0,
                          reinitiation |-> FALSE, upstream_limit |-> 0, exc |-> g.exc]
              /\ UNCHANGED <<retired, edits>>

AddFrameshift ==
    /\ CanCall
    /\ \E f \in StartPositions, p \in StopPositions, sh \in Shifts :
          LET g == add_frameshift(Graph, f, p, sh)
          IN  /\ Commit(g)
              /\ last' = [op |-> "add_frameshift", a |-> f, b |-> p, shift |-> sh,
                          reinitiation |-> FALSE, upstream_limit |-> 0, exc |-> g.exc]
              /\ UNCHANGED <<retired, edits>>

Next ==
    \/ AddOpenReadingFrame
    \/ AddStopCodonReadthrough
    \/ AddFrameshift

Spec == Init /\ [][Next]_vars

\* a graph built by RDG() on which only add_open_reading_frame is called
FreshInit ==
    /\ nodes = FreshNodes /\ edges = FreshEdges /\ last = NoCall
    /\ defaults = EmptyLists
    /\ retired = [nodes |-> {}, edges |-> {}]
    /\ edits = 0

OrfSpec == FreshInit /\ [][AddOpenReadingFrame]_vars

\* ------------------------------------------------ the container edit calls
CanEdit == edits < MaxEdits

\* the keys that g no longer holds are retired
Retire(g) ==
    retired' = [nodes |-> retired.nodes \cup (DOMAIN nodes \ DOMAIN g.nodes),
                edges |-> retired.edges \cup (DOMAIN edges \ DOMAIN g.edges)]

\* add_node(Node(key=get_new_node_key(), ...)) with the four lists passed
AddNode ==
    /\ CanEdit
    /\ LET g == add_node(Graph, Node(get_new_node_key(Graph), "stop", 100, EmptyLists))
       IN  /\ Commit(g)
           /\ Retire(g)
           /\ last' = [op |-> "add_node", key |-> get_new_node_key(Graph), exc |-> g.exc]
    /\ edits' = edits + 1

\* add_edge(Edge(key=get_new_edge_key(), ...), from_node, to_node), the edge
\* going to the node with the highest key
AddEdge ==
    /\ CanEdit
    /\ DOMAIN nodes # {}
    /\ \E from_node \in DOMAIN nodes \ {MaxOf(DOMAIN nodes)} :
          LET to_node == MaxOf(DOMAIN nodes)
              g == add_edge(Graph,
                            Edge(get_new_edge_key(Graph), "untranslated", from_node, to_node,
                                 <<nodes[from_node].node_start, nodes[to_node].node_start>>),
                            from_node, to_node)
          IN  /\ Commit(g)
              /\ Retire(g)
              /\ last' = [op |-> "add_edge", key |-> get_new_edge_key(Graph),
                          from_node |-> from_node, to_node |-> to_node, exc |-> g.exc]
    /\ edits' = edits + 1

RemoveNode ==
    /\ CanEdit
    /\ \E node_key \in DOMAIN nodes :
          LET g == remove_node(Graph, node_key)
          IN  /\ Commit(g)
              /\ Retire(g)
              /\ last' = [op |-> "remove_node", key |-> node_key, exc |-> g.exc]
    /\ edits' = edits + 1

RemoveEdge ==
    /\ CanEdit
    /\ \E edge_key \in DOMAIN edges :
          LET g == remove_edge(Graph, edge_key)
          IN  /\ Commit(g)
              /\ Retire(g)
              /\ last' = [op |-> "remove_edge", key |-> edge_key, exc |-> g.exc]
    /\ edits' = edits + 1

\* add_open_reading_frame with reinitiation allowed, between the edit calls
SpliceBetweenEdits ==
    /\ CanCall /\ CanEdit
    /\ \E s \in StartPositions :
          LET g == add_open_reading_frame(Graph, s, 100, TRUE, 0)
          IN  /\ Commit(g)
              /\ last' = [op |-> "add_open_reading_frame", a |-> s, b |-> 100, shift |-> 0,
                          reinitiation |-> TRUE, upstream_limit |-> 0, exc |-> g.exc]
              /\ UNCHANGED retired
    /\ edits' = edits + 1

EditNext ==
    \/ AddNode
    \/ AddEdge
    \/ RemoveNode
    \/ RemoveEdge
    \/ SpliceBetweenEdits

EditSpec == Init /\ [][EditNext]_vars

\* update_edge with the coordinates running from the new from-node to the
\* new to-node
UpdateEdge ==
    /\ edits < MaxUpdates
    /\ \E edge_key \in DOMAIN edges, new_from_node \in DOMAIN nodes,
          new_to_node \in DOMAIN nodes :
          LET new_coordinates == <<nodes[new_from_node].node_start,
                                   nodes[new_to_node].node_start>>
              g == update_edge(Graph, edge_key, new_from_node, new_to_node, new_coordinates)
          IN  /\ new_from_node # new_to_node
              /\ Commit(g)
              /\ Retire(g)
              /\ last' = [op |-> "update_edge", key |-> edge_key,
                          new_from_node |-> new_from_node, new_to_node |-> new_to_node,
                          new_coordinates |-> new_coordinates, exc |-> g.exc]
    /\ edits' = edits + 1

UpdateSpec == Init /\ [][UpdateEdge]_vars

\* add_edge(Edge(key=get_new_edge_key(), ...), from_node, to_node) between any
\* two nodes of the graph
AddEdgeBetween ==
    /\ CanEdit
    /\ \E from_node \in DOMAIN nodes, to_node \in DOMAIN nodes :
          LET g == add_edge(Graph,
                            Edge(get_new_edge_key(Graph), "untranslated", from_node, to_node,
                                 <<nodes[from_node].node_start, nodes[to_node].node_start>>),
                            from_node, to_node)
          IN  /\ from_node # to_node
              /\ Commit(g)
              /\ Retire(g)
              /\ last' = [op |-> "add_edge", key |-> get_new_edge_key(Graph),
                          from_node |-> from_node, to_node |-> to_node, exc |-> g.exc]
    /\ edits' = edits + 1

ConnectNext ==
    \/ AddEdgeBetween
    \/ RemoveEdge

\* add_edge and remove_edge calls on the graph of RDG() or of load_example()
ConnectSpec == Init /\ [][ConnectNext]_vars

\* splice calls, then one remove_node call on the graph they built
TeardownNext ==
    \/ edits = 0 /\ AddOpenReadingFrame
    \/ edits = 0 /\ AddStopCodonReadthrough
    \/ edits = 0 /\ AddFrameshift
    \/ edits = 0 /\ RemoveNode

TeardownSpec == Init /\ [][TeardownNext]_vars

\* add_node(Node(key=get_new_node_key(), "5_prime", 10, [], [], [], []))
AddRootNode ==
    /\ CanEdit
    /\ LET g == add_node(Graph, Node(get_new_node_key(Graph), "5_prime", 10, EmptyLists))
       IN  /\ Commit(g)
           /\ Retire(g)
           /\ last' = [op |-> "add_node", key |-> get_new_node_key(Graph), exc |-> g.exc]
    /\ edits' = edits + 1

RootsNext ==
    \/ AddRootNode
    \/ RemoveNode
    \/ SpliceBetweenEdits

\* graphs that gain and lose 5' nodes between splice calls
RootsSpec == Init /\ [][RootsNext]_vars

\* ------------------------------------------------------- loading a graph
NoTable == [k \in {} |-> k]

\* the values of the nodes and edges arguments of RDG(...): None, or a
\* mapping
NoMapping == [given |-> FALSE, table |-> NoTable]

Mapping(table) == [given |-> TRUE, table |-> table]

NodeMappings == {NoMapping, Mapping(NoTable), Mapping(FreshNodes), Mapping(ExampleNodes)}

EdgeMappings == {Mapping(NoTable), Mapping(FreshEdges), Mapping(ExampleEdges)}

LocusStarts == {0, 10, 1000}

LocusStops == {0, 10, 1000, 1001}

\* RDG.__init__ whose check accepts a locus_stop equal to locus_start
RDG_init_AcceptsEqual(lstart, lstop, nodes_arg, edges_arg) ==
    IF ~nodes_arg.given
    THEN [exc |-> "none",
          nodes |-> (1 :> Node(1, "5_prime", 0, [output_edges |-> <<1>>, output_nodes |-> <<2>>]))
                    @@ (2 :> Node(2, "3_prime", lstop - lstart,
                                  [input_edges |-> <<1>>, input_nodes |-> <<1>>])),
          edges |-> (1 :> Edge(1, "untranslated", 1, 2, <<1, lstop - 1>>))]
    ELSE [exc |-> IF lstop < lstart THEN "ValueError_locus" ELSE "none",
          nodes |-> nodes_arg.table,
          edges |-> edges_arg.table]

\* RDG.__init__(locus_start, locus_stop, name, nodes, edges): the tables of
\* the object, and the exception that leaves the constructor
RDG_init(lstart, lstop, nodes_arg, edges_arg) ==
    IF ~nodes_arg.given
    THEN [exc |-> "none",
          nodes |-> (1 :> Node(1, "5_prime", 0, [output_edges |-> <<1>>, output_nodes |-> <<2>>]))
                    @@ (2 :> Node(2, "3_prime", lstop - lstart,
                                  [input_edges |-> <<1>>, input_nodes |-> <<1>>])),
          edges |-> (1 :> Edge(1, "untranslated", 1, 2, <<1, lstop - 1>>))]
    ELSE [exc |-> IF lstop <= lstart THEN "ValueError_locus" ELSE "none",
          nodes |-> nodes_arg.table,
          edges |-> edges_arg.table]

\* g = RDG(locus_start, locus_stop, name, nodes, edges): when the constructor
\* raises, no object results and g stays the graph it was
Load ==
    \E lstart \in LocusStarts, lstop \in LocusStops,
       nodes_arg \in NodeMappings, edges_arg \in EdgeMappings :
        LET g == RDG_init(lstart, lstop, nodes_arg, edges_arg)
        IN  /\ IF g.exc = "none"
               THEN nodes' = g.nodes /\ edges' = g.edges
               ELSE UNCHANGED <<nodes, edges>>
            /\ last' = [op |-> "RDG", locus_start |-> lstart, locus_stop |-> lstop,
                        nodes |-> nodes_arg, edges |-> edges_arg, exc |-> g.exc]
            /\ UNCHANGED <<defaults, retired, edits>>

LoadSpec == Init /\ [][Load]_vars

\* ------------------------------------------------------- the query calls
\* the queries are called on graphs spliced from one of at most
\* MaxQueryNodes nodes
CanSpliceForQuery == Cardinality(DOMAIN nodes) <= MaxQueryNodes

\* get_translons that takes the output nodes out of the first start node
\* while it loops over them
get_translons_call_Draining(g) ==
    [graph |-> IF get_start_nodes(g) = <<>> THEN g
               ELSE SetField(g, get_start_nodes(g)[1], "output_nodes", <<>>),
     result |-> get_translons(g)]

\* a call of get_translons: the graph it leaves and the list it returns; the
\* lists it appends to are its own, the lists of the nodes are only read
get_translons_call(g) == [graph |-> g, result |-> get_translons(g)]

GetTranslons ==
    /\ CanEdit
    /\ Commit(get_translons_call(Graph).graph)
    /\ last' = [op |-> "get_translons", result |-> get_translons_call(Graph).result,
                exc |-> "none"]
    /\ edits' = edits + 1
    /\ UNCHANGED retired

GetUniquePaths ==
    /\ CanEdit
    /\ last' = [op |-> "get_unique_paths", result |-> get_unique_paths(Graph),
                exc |-> get_unique_paths_error(Graph)]
    /\ edits' = edits + 1
    /\ UNCHANGED <<nodes, edges, defaults, retired>>

GetBranchPoints ==
    /\ CanEdit
    /\ last' = [op |-> "get_branch_points", result |-> get_branch_points(Graph),
                exc |-> "none"]
    /\ edits' = edits + 1
    /\ UNCHANGED <<nodes, edges, defaults, retired>>

GetEndpoints ==
    /\ CanEdit
    /\ last' = [op |-> "get_endpoints", result |-> get_endpoints(Graph), exc |-> "none"]
    /\ edits' = edits + 1
    /\ UNCHANGED <<nodes, edges, defaults, retired>>

Newick ==
    /\ CanEdit
    /\ last' = [op |-> "newick", result |-> newick(Graph).out, exc |-> newick(Graph).exc]
    /\ edits' = edits + 1
    /\ UNCHANGED <<nodes, edges, defaults, retired>>

QueryNext ==
    \/ CanSpliceForQuery /\ AddOpenReadingFrame
    \/ CanSpliceForQuery /\ AddStopCodonReadthrough
    \/ CanSpliceForQuery /\ AddFrameshift
    \/ GetTranslons
    \/ GetUniquePaths
    \/ GetBranchPoints
    \/ GetEndpoints
    \/ Newick

QuerySpec == Init /\ [][QueryNext]_vars

\* ------------------------------------------------- saving and loading a file
\* to_dict: the attributes of a Node or an Edge, every list copied
to_dict_node(g, k) ==
    [key          |-> g.nodes[k].key,
     node_type    |-> g.nodes[k].node_type,
     input_edges  |-> Field(g, k, "input_edges"),
     output_edges |-> Field(g, k, "output_edges"),
     input_nodes  |-> Field(g, k, "input_nodes"),
     output_nodes |-> Field(g, k, "output_nodes"),
     node_start   |-> g.nodes[k].node_start]

\* save: the entry that is stored under the locus name
save(g, lstart, lstop) ==
    [locus_start |-> lstart,
     locus_stop  |-> lstop,
     nodes       |-> [k \in DOMAIN g.nodes |-> to_dict_node(g, k)],
     edges       |-> g.edges]

\* the Node objects that load builds from the stored entry
LoadedNodes(graph_dict) ==
    [k \in DOMAIN graph_dict.nodes |->
        Node(k, graph_dict.nodes[k].node_type, graph_dict.nodes[k].node_start,
             [input_edges  |-> graph_dict.nodes[k].input_edges,
              output_edges |-> graph_dict.nodes[k].output_edges,
              input_nodes  |-> graph_dict.nodes[k].input_nodes,
              output_nodes |-> graph_dict.nodes[k].output_nodes])]

\* the methods of the class RDG
RDG_methods ==
    {"load_example", "get_node_keys", "get_edge_keys", "get_edges_from_to",
     "get_new_node_key", "get_new_edge_key", "get_key_from_position", "remove_edge",
     "add_edge", "add_node", "remove_node", "update_edge", "insert_translon",
     "is_input_edge_translated", "root_to_node_of_acyclic_node_path",
     "root_to_node_of_acyclic_edge_path", "check_translation_upstream",
     "add_open_reading_frame", "add_stop_codon_readthrough", "add_frameshift",
     "get_branch_points", "get_endpoints", "get_startpoints", "get_start_nodes",
     "get_stop_nodes", "get_translons", "get_frameshifts", "get_unique_paths",
     "statistics", "describe", "get_upstream_branchpoint", "newick", "prune"}

\* load: dg = RDG(), the Node and Edge objects, then dg = dg.Load(...)
load(graph_dict) ==
    IF "Load" \in RDG_methods
    THEN [nodes |-> LoadedNodes(graph_dict), edges |-> graph_dict.edges,
          defaults |-> EmptyLists, exc |-> "none"]
    ELSE [nodes |-> FreshNodes, edges |-> FreshEdges,
          defaults |-> EmptyLists, exc |-> "AttributeError"]

\* save(dg, file); dg2 = load(name, file): dg stays as it is, the outcome of
\* load is recorded
SaveLoad ==
    /\ last.op # "load"
    /\ LET dg2 == load(save(Graph, locus_start, locus_stop))
       IN  last' = [op |-> "load", exc |-> dg2.exc,
                    stored |-> save(Graph, locus_start, locus_stop),
                    nodes |-> dg2.nodes, edges |-> dg2.edges]
    /\ UNCHANGED <<nodes, edges, defaults, retired, edits>>

RoundTripNext ==
    \/ last.op # "load" /\ AddOpenReadingFrame
    \/ SaveLoad

RoundTripSpec == FreshInit /\ [][RoundTripNext]_vars

\* ------------------------------------------- splice calls on a fresh graph
\* a graph built by RDG() on which the three splice operations are called
FreshSpec == FreshInit /\ [][Next]_vars

\* add_open_reading_frame(s, p, reinitiation=True)
AddReinitiatingOrf ==
    /\ CanCall
    /\ \E s \in StartPositions, p \in StopPositions :
          LET g == add_open_reading_frame(Graph, s, p, TRUE, 0)
          IN  /\ Commit(g)
              /\ last' = [op |-> "add_open_reading_frame", a |-> s, b |-> p, shift |-> 0,
                          reinitiation |-> TRUE, upstream_limit |-> 0, exc |-> g.exc]
              /\ UNCHANGED <<retired, edits>>

\* add_stop_codon_readthrough on a graph that two reinitiating calls have built
AddLateReadthrough ==
    /\ Cardinality(DOMAIN nodes) <= MaxNodes + 3
    /\ \E r \in ReadthroughPositions, p \in NextStopPositions :
          LET g == add_stop_codon_readthrough(Graph, r, p)
          IN  /\ Commit(g)
              /\ last' = [op |-> "add_stop_codon_readthrough", a |-> r, b |-> p, shift |-> 0,
                          reinitiation |-> FALSE, upstream_limit |-> 0, exc |-> g.exc]
              /\ UNCHANGED <<retired, edits>>

ReinitiationNext ==
    \/ AddReinitiatingOrf
    \/ AddLateReadthrough

ReinitiationSpec == FreshInit /\ [][ReinitiationNext]_vars

\* the upstream limits that the calls of one graph share
UpstreamLimits == {0, 1}

\* add_open_reading_frame(s, p, reinitiation=False, upstream_limit=L) with
\* the L of the calls before it
AddOrfWithinLimit ==
    /\ Cardinality(DOMAIN nodes) <= MaxNodes + 3
    /\ \E s \in StartPositions, p \in StopPositions, L \in UpstreamLimits :
          /\ last.op = "new" \/ last.upstream_limit = L
          /\ LET g == add_open_reading_frame(Graph, s, p, FALSE, L)
             IN  /\ Commit(g)
                 /\ last' = [op |-> "add_open_reading_frame", a |-> s, b |-> p, shift |-> 0,
                             reinitiation |-> FALSE, upstream_limit |-> L, exc |-> g.exc]
                 /\ UNCHANGED <<retired, edits>>

LimitSpec == FreshInit /\ [][AddOrfWithinLimit]_vars

\* ------------------------------------------------------------ pruning a graph
\* the positions pruned: the root, the start and stop positions of the
\* splice calls, a position without a node, and locus_stop
PrunePositions == {0, 5, 30, 100, 150, 1000}

\* g.prune(p); when the call raises, the graph stays as the call left it
Prune ==
    /\ last.op # "prune"
    /\ \E p \in PrunePositions :
          LET g == prune(Graph, p)
          IN  /\ Commit(g)
              /\ last' = [op |-> "prune", a |-> p, b |-> 0, shift |-> 0,
                          reinitiation |-> FALSE, upstream_limit |-> 0, exc |-> g.exc]
              /\ UNCHANGED <<retired, edits>>

\* splice calls on a graph of at most MaxQueryNodes nodes, then one prune
PruneNext ==
    \/ last.op # "prune" /\ CanSpliceForQuery /\ AddOpenReadingFrame
    \/ last.op # "prune" /\ CanSpliceForQuery /\ AddStopCodonReadthrough
    \/ last.op # "prune" /\ CanSpliceForQuery /\ AddFrameshift
    \/ Prune

PruneSpec == FreshInit /\ [][PruneNext]_vars

\* ---------------------------------------------------------------- properties
InputEdges(n) == Field(Graph, n, "input_edges")
OutputEdges(n) == Field(Graph, n, "output_edges")
InputNodes(n) == Field(Graph, n, "input_nodes")
OutputNodes(n) == Field(Graph, n, "output_nodes")

IsSpliceCall(c) ==
    c.op \in {"add_open_reading_frame", "add_stop_codon_readthrough", "add_frameshift"}

\* C1: every edge is listed by both of its endpoints, by key and by
\* neighbouring node (adjacency symmetry), after any sequence of splice calls
C1_AdjacencySymmetry ==
    \A e \in DOMAIN edges :
        /\ Contains(OutputEdges(edges[e].from_node), e)
        /\ Contains(InputEdges(edges[e].to_node), e)
        /\ Contains(OutputNodes(edges[e].from_node), edges[e].to_node)
        /\ Contains(InputNodes(edges[e].to_node), edges[e].from_node)

Occurrences(s, x) == Cardinality({i \in 1..Len(s) : s[i] = x})

RECURSIVE SumOver(_, _, _)
SumOver(S, f(_), acc) ==
    IF S = {} THEN acc
    ELSE LET x == CHOOSE y \in S : TRUE
         IN  SumOver(S \ {x}, f, acc + f(x))

OutOccurrences(e) == SumOver(DOMAIN nodes, LAMBDA n : Occurrences(OutputEdges(n), e), 0)
InOccurrences(e) == SumOver(DOMAIN nodes, LAMBDA n : Occurrences(InputEdges(n), e), 0)

\* C2: every edge key occurs exactly once over all output_edges lists and
\* exactly once over all input_edges lists, and the lists hold no key that
\* is missing from the edge table
C2_EdgeKeyListedOnce ==
    /\ \A e \in DOMAIN edges : OutOccurrences(e) = 1 /\ InOccurrences(e) = 1
    /\ \A n \in DOMAIN nodes :
          SeqToSet(OutputEdges(n)) \cup SeqToSet(InputEdges(n)) \subseteq DOMAIN edges

\* C3: the node lists are in lockstep with the edge lists: same length, and
\* the i-th input (output) node is the from_node (to_node) of the i-th
\* input (output) edge
C3_Lockstep ==
    \A n \in DOMAIN nodes :
        /\ Len(InputEdges(n)) = Len(InputNodes(n))
        /\ Len(OutputEdges(n)) = Len(OutputNodes(n))
        /\ \A i \in 1..Len(InputEdges(n)) :
              /\ InputEdges(n)[i] \in DOMAIN edges
              /\ i <= Len(InputNodes(n))
              /\ edges[InputEdges(n)[i]].from_node = InputNodes(n)[i]
        /\ \A i \in 1..Len(OutputEdges(n)) :
              /\ OutputEdges(n)[i] \in DOMAIN edges
              /\ i <= Len(OutputNodes(n))
              /\ edges[OutputEdges(n)[i]].to_node = OutputNodes(n)[i]

EdgeSuccessors(S) ==
    {edges[e].to_node : e \in {x \in DOMAIN edges : edges[x].from_node \in S}}

RECURSIVE ReachFrom(_, _)
ReachFrom(frontier, seen) ==
    LET new == EdgeSuccessors(frontier) \ seen
    IN  IF new = {} THEN seen ELSE ReachFrom(new, seen \cup new)

\* the nodes reached from n along one or more edges
Descendants(n) == ReachFrom({n}, {})

\* C4: one root (a 5_prime node without input edges), no cycle along the
\* edges, and every node reachable from the root
C4_SingleRootedAcyclic ==
    /\ Len(get_startpoints(Graph)) = 1
    /\ \A n \in DOMAIN nodes : n \notin Descendants(n)
    /\ LET root == get_startpoints(Graph)[1]
       IN  DOMAIN nodes = {root} \cup Descendants(root)

C4_Witness ==
    /\ last.exc = "none"
    /\ Cardinality(DOMAIN nodes) >= 10
    /\ \E n \in DOMAIN nodes : nodes[n].node_type = "frameshift"
    /\ \E n \in DOMAIN nodes : nodes[n].node_type = "stop" /\ Len(OutputEdges(n)) = 2
    /\ \E n \in DOMAIN nodes : nodes[n].node_type = "start" /\ nodes[n].node_start = 150

\* C5: a stop coordinate beyond locus_stop raises the bounds error and the
\* node table, the edge table and every adjacency list stay as they were;
\* a stop coordinate equal to locus_stop passes the check
C5_BoundsErrorLeavesGraphUnchanged ==
    [][/\ (last'.b > locus_stop) <=> (last'.exc = "Exception_bounds")
       /\ (last'.b > locus_stop) => UNCHANGED <<nodes, edges, defaults>>]_vars

C5_Witness ==
    /\ last.op = "add_open_reading_frame"
    /\ last.b > locus_stop
    /\ last.exc = "Exception_bounds"
    /\ Cardinality(DOMAIN nodes) > 5
    /\ \E e \in DOMAIN edges :
          edges[e].edge_type = "untranslated" /\ InRange(last.a, edges[e].coordinates)

\* C6: a splice call that raises has not changed the graph
C6_NoFailureAfterMutation ==
    [][last'.exc # "none" => UNCHANGED <<nodes, edges, defaults>>]_vars

OrfDone(c) == c.op = "add_open_reading_frame" /\ c.exc = "none"

\* the number of translated edges on root_to_node_of_acyclic_edge_path(n)
TranslatedOnRootPath(g, n) ==
    LET path == root_to_node_of_acyclic_edge_path(g, n)
    IN  Cardinality({i \in 1..Len(path) : g.edges[path[i]].edge_type = "translated"})

\* the edges of g that are not translated and whose span holds position s
OrfTargets(g, s) ==
    {e \in DOMAIN g.edges :
        /\ g.edges[e].edge_type # "translated"
        /\ g.edges[e].coordinates[1] <= s
        /\ s < g.edges[e].coordinates[2]}

\* the edges that existed before the step and were rewritten by it
Rewritten == {e \in DOMAIN edges : edges'[e] # edges[e]}

NewNodes == DOMAIN nodes' \ DOMAIN nodes
NewEdges == DOMAIN edges' \ DOMAIN edges

\* C7: a clashing edge is spliced iff reinitiation is set or the number of
\* translated edges on the root path of its from-node is at most
\* upstream_limit; check_translation_upstream is true iff that number
\* exceeds the limit
C7_ReinitiationPolicy ==
    [][/\ OrfDone(last') =>
             \A e \in OrfTargets(Graph, last'.a) :
                 (e \in Rewritten) <=>
                     (last'.reinitiation
                        \/ TranslatedOnRootPath(Graph, edges[e].from_node)
                              <= last'.upstream_limit)
       /\ \A n \in DOMAIN nodes, L \in 0..2 :
             check_translation_upstream(Graph, n, L) <=> (TranslatedOnRootPath(Graph, n) > L)
      ]_vars

\* the last call spliced a translon whose start node has exactly one
\* translated edge upstream, under upstream_limit 1 and no reinitiation
C7_Witness ==
    /\ OrfDone(last) /\ ~last.reinitiation /\ last.upstream_limit = 1
    /\ LET M == MaxOf(DOMAIN nodes)
       IN  /\ M - 2 \in DOMAIN nodes
           /\ nodes[M - 2].node_type = "start" /\ nodes[M - 2].node_start = last.a
           /\ nodes[M - 1].node_type = "stop" /\ nodes[M - 1].node_start = last.b
           /\ TranslatedOnRootPath(Graph, M - 2) = 1

\* C8: only edges that existed before the call, are untranslated and hold
\* start_pos are spliced; each spliced edge adds three nodes (start, stop,
\* 3' terminal), three edges, one branch point and one endpoint; a call
\* that splices nothing leaves the graph unchanged
C8_OrfClashTargets ==
    [][OrfDone(last') =>
          LET n == Cardinality(Rewritten)
          IN  /\ Rewritten \subseteq OrfTargets(Graph, last'.a)
              /\ last'.reinitiation => Rewritten = OrfTargets(Graph, last'.a)
              /\ DOMAIN nodes \subseteq DOMAIN nodes'
              /\ DOMAIN edges \subseteq DOMAIN edges'
              /\ Cardinality(NewNodes) = 3 * n
              /\ Cardinality(NewEdges) = 3 * n
              /\ \A t \in {"start", "stop", "3_prime"} :
                    Cardinality({k \in NewNodes : nodes'[k].node_type = t}) = n
              /\ Len(get_branch_points(Graph')) = Len(get_branch_points(Graph)) + n
              /\ Len(get_endpoints(Graph')) = Len(get_endpoints(Graph)) + n
              /\ (n = 0) => UNCHANGED <<nodes, edges, defaults>>
      ]_vars

\* the last call spliced the same translon into two branches, next to a
\* translated edge that holds the start position
C8_Witness ==
    /\ OrfDone(last) /\ last.reinitiation
    /\ LET M == MaxOf(DOMAIN nodes)
       IN  /\ M - 5 \in DOMAIN nodes
           /\ nodes[M - 2].node_type = "start" /\ nodes[M - 2].node_start = last.a
           /\ nodes[M - 5].node_type = "start" /\ nodes[M - 5].node_start = last.a
    /\ \E e \in DOMAIN edges :
          /\ edges[e].edge_type = "translated"
          /\ InRange(last.a, edges[e].coordinates)
          /\ nodes[edges[e].from_node].node_start < last.a

\* C9: the shape insert_translon leaves around a spliced edge e (A -> B)
C9_InsertTranslonShape ==
    [][OrfDone(last') =>
          \A e \in Rewritten :
              LET A == edges[e].from_node
                  B == edges[e].to_node
                  S == edges'[e].from_node
              IN  /\ S \in NewNodes
                  /\ nodes'[S].node_type = "start"
                  /\ nodes'[S].node_start = last'.a
                  /\ edges'[e] = [edges[e] EXCEPT
                                     !.from_node = S,
                                     !.coordinates = <<last'.a, nodes[B].node_start>>]
                  /\ \E f \in NewEdges :
                        edges'[f] = Edge(f, "untranslated", A, S,
                                         <<edges[e].coordinates[1], last'.a - 1>>)
                  /\ \E c \in NewEdges, T \in NewNodes, x \in NewEdges, Z \in NewNodes :
                        /\ nodes'[T].node_type = "stop"
                        /\ nodes'[T].node_start = last'.b
                        /\ edges'[c] = Edge(c, "translated", S, T, <<last'.a, last'.b>>)
                        /\ nodes'[Z].node_type = "3_prime"
                        /\ nodes'[Z].node_start = locus_stop
                        /\ edges'[x].edge_type = "untranslated"
                        /\ edges'[x].from_node = T
                        /\ edges'[x].to_node = Z
                        /\ SeqToSet(Field(Graph', S, "output_edges")) = {c, e}
                        /\ Field(Graph', T, "output_edges") = <<x>>
                        /\ Field(Graph', Z, "input_edges") = <<x>>
                  /\ Len(Field(Graph', S, "output_edges")) = 2
                  /\ ~Contains(Field(Graph', A, "output_edges"), e)
                  /\ Contains(Field(Graph', B, "input_nodes"), S)
                  /\ ~Contains(Field(Graph', B, "input_nodes"), A)
      ]_vars

\* the last call spliced a translon into an edge that left a start node
C9_Witness ==
    /\ OrfDone(last)
    /\ LET M == MaxOf(DOMAIN nodes)
       IN  /\ M - 2 \in DOMAIN nodes
           /\ nodes[M - 2].node_type = "start" /\ nodes[M - 2].node_start = last.a
           /\ nodes[M - 1].node_type = "stop" /\ nodes[M - 1].node_start = last.b
           /\ Len(InputNodes(M - 2)) = 1
           /\ nodes[InputNodes(M - 2)[1]].node_type = "start"
           /\ Len(OutputEdges(M - 2)) = 2

ScrDone(c) == c.op = "add_stop_codon_readthrough" /\ c.exc = "none"

\* the stop nodes that add_stop_codon_readthrough reads through
StopsAt(p) == {n \in DOMAIN nodes : nodes[n].node_type = "stop" /\ nodes[n].node_start = p}

Translons == SeqToSet(get_translons(Graph))

\* the (start, stop) pairs of the stop nodes that are output nodes of a
\* translation start of g
DirectTranslons(g) ==
    {<<g.nodes[s].node_start, g.nodes[t].node_start>> :
        <<s, t>> \in {p \in SeqToSet(get_start_nodes(g)) \X (DOMAIN g.nodes) :
                        /\ Contains(Field(g, p[1], "output_nodes"), p[2])
                        /\ g.nodes[p[2]].node_type = "stop"}}

FsDone(c) == c.op = "add_frameshift" /\ c.exc = "none"

\* the translated edges of g whose span holds position f
FsTargets(g, f) ==
    {e \in DOMAIN g.edges :
        g.edges[e].edge_type = "translated" /\ InRange(f, g.edges[e].coordinates)}

\* C12: after add_frameshift, every translated edge t (U -> S) that held
\* fs_pos ends at a new frameshift node F at fs_pos, listed by F and U and
\* no longer by S; F has two outgoing translated edges, to S and to a new
\* stop node at next_stop_pos, in different frames unless shift is a
\* multiple of 3; the new stop has an untranslated edge to a new 3'
\* terminal; three nodes and three edges are added per clash
C12_FrameshiftShape ==
    [][FsDone(last') =>
          /\ Cardinality(NewNodes) = 3 * Cardinality(FsTargets(Graph, last'.a))
          /\ Cardinality(NewEdges) = 3 * Cardinality(FsTargets(Graph, last'.a))
          /\ \A t \in FsTargets(Graph, last'.a) :
                LET U == edges[t].from_node
                    S == edges[t].to_node
                    F == edges'[t].to_node
                IN  /\ F \in NewNodes
                    /\ nodes'[F].node_type = "frameshift"
                    /\ nodes'[F].node_start = last'.a
                    /\ Contains(Field(Graph', F, "input_edges"), t)
                    /\ Contains(Field(Graph', F, "input_nodes"), U)
                    /\ Contains(Field(Graph', U, "output_nodes"), F)
                    /\ ~Contains(Field(Graph', S, "input_edges"), t)
                    /\ Len(Field(Graph', F, "output_edges")) = 2
                    /\ \E a \in NewEdges, b \in NewEdges, T \in NewNodes,
                          x \in NewEdges, Z \in NewNodes :
                          /\ SeqToSet(Field(Graph', F, "output_edges")) = {a, b}
                          /\ edges'[a].edge_type = "translated"
                          /\ edges'[a].from_node = F /\ edges'[a].to_node = S
                          /\ edges'[b].edge_type = "translated"
                          /\ edges'[b].from_node = F /\ edges'[b].to_node = T
                          /\ nodes'[T].node_type = "stop"
                          /\ nodes'[T].node_start = last'.b
                          /\ (last'.shift % 3 # 0) =>
                                edges'[a].coordinates[1] % 3 # edges'[b].coordinates[1] % 3
                          /\ edges'[x].edge_type = "untranslated"
                          /\ edges'[x].from_node = T /\ edges'[x].to_node = Z
                          /\ nodes'[Z].node_type = "3_prime"
      ]_vars

\* the 3-tuples of the paths start -> frameshift -> stop of g
FrameshiftPaths(g) ==
    {<<g.nodes[p[1]].node_start, g.nodes[p[2]].node_start, g.nodes[p[3]].node_start>> :
        p \in {q \in SeqToSet(get_start_nodes(g)) \X (DOMAIN g.nodes) \X (DOMAIN g.nodes) :
                  /\ Contains(Field(g, q[1], "output_nodes"), q[2])
                  /\ g.nodes[q[2]].node_type = "frameshift"
                  /\ Contains(Field(g, q[2], "output_nodes"), q[3])
                  /\ g.nodes[q[3]].node_type = "stop"}}

\* the 2-tuples of the paths start -> stop and start -> stop -> stop of g
PlainPaths(g) ==
    DirectTranslons(g) \cup
    {<<g.nodes[p[1]].node_start, g.nodes[p[3]].node_start>> :
        p \in {q \in SeqToSet(get_start_nodes(g)) \X (DOMAIN g.nodes) \X (DOMAIN g.nodes) :
                  /\ Contains(Field(g, q[1], "output_nodes"), q[2])
                  /\ g.nodes[q[2]].node_type = "stop"
                  /\ Contains(Field(g, q[2], "output_nodes"), q[3])
                  /\ g.nodes[q[3]].node_type = "stop"}}

\* C13: a frameshift at f inside the translated edge of a graph holding the
\* one translon (s, p) makes get_frameshifts return the one new frameshift
\* node and get_translons return exactly (s, f, p) and (s, f, q); and in
\* every graph the 3-tuples of get_translons are the translons through a
\* frameshift node and the 2-tuples the ones without
C13_FrameshiftTranslons ==
    /\ [](/\ {t \in Translons : Len(t) = 3} = FrameshiftPaths(Graph)
          /\ {t \in Translons : Len(t) # 3} = PlainPaths(Graph))
    /\ [][(/\ FsDone(last')
           /\ Len(get_translons(Graph)) = 1
           /\ Len(get_translons(Graph)[1]) = 2
           /\ FsTargets(Graph, last'.a) # {})
          => LET t == get_translons(Graph)[1]
             IN  /\ Len(get_frameshifts(Graph')) = 1
                 /\ get_frameshifts(Graph')[1] \in NewNodes
                 /\ SeqToSet(get_translons(Graph')) =
                        {<<t[1], last'.a, t[2]>>, <<t[1], last'.a, last'.b>>}
         ]_vars

\* the last call put a frameshift into the only translon (s, p), and the
\* two frameshifted translons (s, f, p), (s, f, q) with q # p are returned
C13_Witness ==
    /\ FsDone(last)
    /\ Len(get_frameshifts(Graph)) = 1
    /\ Cardinality(DOMAIN nodes) = 8
    /\ Len(get_translons(Graph)) = 2
    /\ \E s \in StartPositions \cup {10}, p \in StopPositions :
          /\ p # last.b
          /\ Translons = {<<s, last.a, p>>, <<s, last.a, last.b>>}

\* C14: on a graph built from a fresh one by add_open_reading_frame calls,
\* the set of tuples of get_translons is the set of (start_pos, stop_pos)
\* of the calls that spliced at least one edge: it is empty on the fresh
\* graph, a call that splices adds its pair, any other call adds nothing;
\* one call on the fresh graph gives [(s, p)]
C14_TranslonsAreSplicedPairs ==
    /\ get_translons(Graph) = <<>>
    /\ [][/\ SeqToSet(get_translons(Graph')) =
               Translons \cup (IF OrfDone(last') /\ Rewritten # {}
                               THEN {<<last'.a, last'.b>>} ELSE {})
          /\ (OrfDone(last') /\ Rewritten # {} /\ nodes = FreshNodes)
                => get_translons(Graph') = << <<last'.a, last'.b>> >>
         ]_vars

\* three calls spliced three different pairs, the last one behind the start
\* node of an earlier one
C14_Witness ==
    /\ OrfDone(last)
    /\ Cardinality(Translons) = 3
    /\ Cardinality(DOMAIN nodes) >= 11
    /\ <<last.a, last.b>> \in Translons

\* n has an edge to m
IsParent(n, m) == \E e \in DOMAIN edges : edges[e].from_node = n /\ edges[e].to_node = m

\* C15: get_unique_paths returns one path for each endpoint and no path
\* twice; every path starts at the root, ends at its endpoint and lists each
\* node immediately after its parent
C15_UniquePaths ==
    /\ get_unique_paths_error(Graph) = "none"
    /\ LET paths == get_unique_paths(Graph)
       IN  /\ Len(paths) = Len(get_endpoints(Graph))
           /\ \A i, j \in 1..Len(paths) : paths[i] = paths[j] => i = j
           /\ \A n \in SeqToSet(get_endpoints(Graph)) :
                 \E i \in 1..Len(paths) : paths[i][Len(paths[i])] = n
           /\ \A i \in 1..Len(paths) :
                 /\ <<paths[i][1]>> = get_startpoints(Graph)
                 /\ \A k \in 1..(Len(paths[i]) - 1) :
                       IsParent(paths[i][k], paths[i][k + 1])

\* C16: for every node n, the root included, the node path goes from the
\* root to n along input_nodes[0], and the edge path lists the edges of the
\* same walk; for the root they are [root] and []
C16_RootPaths ==
    \A n \in DOMAIN nodes :
        LET path == root_to_node_of_acyclic_node_path(Graph, n)
            edge_path == root_to_node_of_acyclic_edge_path(Graph, n)
        IN  /\ root_to_node_of_acyclic_node_path_error(Graph, n) = "none"
            /\ Len(path) >= 1
            /\ <<path[1]>> = get_startpoints(Graph)
            /\ path[Len(path)] = n
            /\ \A k \in 1..(Len(path) - 1) : path[k] = InputNodes(path[k + 1])[1]
            /\ Len(edge_path) = Len(path) - 1
            /\ \A k \in 1..Len(edge_path) : edge_path[k] = InputEdges(path[k + 1])[1]

\* C17: get_new_node_key and get_new_edge_key return a value above every key
\* of their table, and 1 on an empty table; the keys that an insertion puts
\* into a table are above every key the table held
C17_NewKeysAboveAll ==
    /\ [](/\ \A k \in DOMAIN nodes : get_new_node_key(Graph) > k
          /\ \A k \in DOMAIN edges : get_new_edge_key(Graph) > k
          /\ DOMAIN nodes = {} => get_new_node_key(Graph) = 1
          /\ DOMAIN edges = {} => get_new_edge_key(Graph) = 1)
    /\ [][/\ \A n \in NewNodes : n >= get_new_node_key(Graph)
          /\ \A e \in NewEdges : e >= get_new_edge_key(Graph)
         ]_vars

\* both tables were emptied out, and the node added next got key 1 while the
\* edge table is still empty
C17_Witness ==
    /\ last.op = "add_node" /\ last.key = 1
    /\ DOMAIN nodes = {1} /\ DOMAIN edges = {}
    /\ retired.nodes = {1, 2} /\ retired.edges = {1}

\* C18 as stated: a key that was removed from its table is never returned
\* by get_new_node_key / get_new_edge_key again
C18_RetiredKeysNeverReturned ==
    /\ get_new_node_key(Graph) \notin retired.nodes
    /\ get_new_edge_key(Graph) \notin retired.edges

\* C18 amended: a new key is never a key of the table, and a removed key k
\* is returned again exactly when the highest key left in the table is
\* k - 1 (or the table is empty and k = 1)
C18_RetiredKeyReturnedAboveAll ==
    /\ get_new_node_key(Graph) \notin DOMAIN nodes
    /\ get_new_edge_key(Graph) \notin DOMAIN edges
    /\ \A k \in retired.nodes :
          (get_new_node_key(Graph) = k) <=>
              (IF DOMAIN nodes = {} THEN k = 1 ELSE MaxOf(DOMAIN nodes) = k - 1)
    /\ \A k \in retired.edges :
          (get_new_edge_key(Graph) = k) <=>
              (IF DOMAIN edges = {} THEN k = 1 ELSE MaxOf(DOMAIN edges) = k - 1)

\* the node with the highest key was removed and its key was handed out
\* again to a new node, while a lower removed key stays unused
C18_Witness ==
    /\ last.op = "add_node"
    /\ last.key \in retired.nodes
    /\ \E k \in retired.nodes : k < last.key /\ k \notin DOMAIN nodes

UpdateDone(c) == c.op = "update_edge" /\ c.exc = "none"

\* C19: update_edge keeps the edge under its key with the new coordinates
\* and the new from_node, lists it in the output_edges of the new from-node
\* and in the input_edges of the new to-node, takes it out of the lists of
\* an endpoint that changed, and leaves the sets of keys as they were
C19_UpdateEdgeLists ==
    [][UpdateDone(last') =>
          LET k == last'.key
              old_from_node == edges[k].from_node
              old_to_node == edges[k].to_node
          IN  /\ DOMAIN nodes' = DOMAIN nodes
              /\ DOMAIN edges' = DOMAIN edges
              /\ edges'[k].coordinates = last'.new_coordinates
              /\ edges'[k].from_node = last'.new_from_node
              /\ Contains(Field(Graph', last'.new_from_node, "output_edges"), k)
              /\ Contains(Field(Graph', last'.new_to_node, "input_edges"), k)
              /\ old_from_node # last'.new_from_node
                    => ~Contains(Field(Graph', old_from_node, "output_edges"), k)
              /\ old_to_node # last'.new_to_node
                    => ~Contains(Field(Graph', old_to_node, "input_edges"), k)
      ]_vars

\* C20: on a graph with adjacency symmetry and lockstep, update_edge leaves
\* edge k consistent with the lists: its to_node is new_to, new_to is in
\* the output_nodes of new_from, new_from is in the input_nodes of new_to,
\* and k is listed by its two endpoints only
C20_UpdateEdgeKeepsSymmetry ==
    [][(UpdateDone(last') /\ C1_AdjacencySymmetry /\ C3_Lockstep) =>
          LET k == last'.key
          IN  /\ edges'[k].to_node = last'.new_to_node
              /\ edges'[k].from_node = last'.new_from_node
              /\ Contains(Field(Graph', last'.new_from_node, "output_nodes"),
                          last'.new_to_node)
              /\ Contains(Field(Graph', last'.new_to_node, "input_nodes"),
                          last'.new_from_node)
              /\ \A n \in DOMAIN nodes' :
                    /\ Contains(Field(Graph', n, "output_edges"), k)
                          <=> n = last'.new_from_node
                    /\ Contains(Field(Graph', n, "input_edges"), k)
                          <=> n = last'.new_to_node
      ]_vars

RemoveEdgeDone(c) == c.op = "remove_edge" /\ c.exc = "none"

\* the list s without its i-th entry
RemoveAt(s, i) == [j \in 1..(Len(s) - 1) |-> IF j < i THEN s[j] ELSE s[j + 1]]

\* the four lists of node n are the same before and after the step
SameLists(n) == \A f \in ListFields : Field(Graph', n, f) = Field(Graph, n, f)

\* C21: on a graph with adjacency symmetry, single listing and lockstep,
\* remove_edge(k) takes k out of the edge table, out of the output_edges of
\* its from-node and the input_edges of its to-node together with the node
\* entry at the same index, keeps every node, and leaves every other edge and
\* every other list entry as it was; after any remove_edge(k) no list holds k
C21_RemoveEdgeTeardown ==
    /\ [][(RemoveEdgeDone(last') /\ C1_AdjacencySymmetry /\ C2_EdgeKeyListedOnce
              /\ C3_Lockstep) =>
             LET k == last'.key
                 A == edges[k].from_node
                 B == edges[k].to_node
             IN  /\ DOMAIN edges' = DOMAIN edges \ {k}
                 /\ \A e \in DOMAIN edges' : edges'[e] = edges[e]
                 /\ DOMAIN nodes' = DOMAIN nodes
                 /\ Field(Graph', A, "output_edges") = ListRemove(OutputEdges(A), k)
                 /\ Field(Graph', A, "output_nodes")
                       = RemoveAt(OutputNodes(A), FirstIndex(OutputEdges(A), k))
                 /\ Field(Graph', B, "input_edges") = ListRemove(InputEdges(B), k)
                 /\ Field(Graph', B, "input_nodes")
                       = RemoveAt(InputNodes(B), FirstIndex(InputEdges(B), k))
                 /\ Field(Graph', A, "input_edges") = InputEdges(A)
                 /\ Field(Graph', A, "input_nodes") = InputNodes(A)
                 /\ Field(Graph', B, "output_edges") = OutputEdges(B)
                 /\ Field(Graph', B, "output_nodes") = OutputNodes(B)
                 /\ \A n \in DOMAIN nodes \ {A, B} : SameLists(n)
         ]_vars
    /\ [][RemoveEdgeDone(last') =>
             \A n \in DOMAIN nodes' :
                 /\ ~Contains(Field(Graph', n, "output_edges"), last'.key)
                 /\ ~Contains(Field(Graph', n, "input_edges"), last'.key)
         ]_vars

\* C22: remove_node(k) on a graph built by splice calls raises nothing; then
\* k is out of the node table, no edge left has k as from_node or to_node,
\* and no node left lists k or an edge that the call removed
C22_RemoveNodeCascade ==
    [][last'.op = "remove_node" =>
          LET k == last'.key
          IN  /\ last'.exc = "none"
              /\ k \notin DOMAIN nodes'
              /\ \A e \in DOMAIN edges' :
                    edges'[e].from_node # k /\ edges'[e].to_node # k
              /\ \A n \in DOMAIN nodes' :
                    /\ ~Contains(Field(Graph', n, "input_nodes"), k)
                    /\ ~Contains(Field(Graph', n, "output_nodes"), k)
                    /\ \A e \in DOMAIN edges \ DOMAIN edges' :
                          /\ ~Contains(Field(Graph', n, "input_edges"), e)
                          /\ ~Contains(Field(Graph', n, "output_edges"), e)
      ]_vars

AddEdgeDone(c) == c.op = "add_edge" /\ c.exc = "none"

\* C23: add_edge changes the output lists of the from-node, the input lists
\* of the to-node and the edge table, and nothing else: every other list of
\* every node is as before, and so are the default list objects of
\* Node.__init__, which the nodes of any other graph may hold
C23_AddEdgeFrame ==
    [][AddEdgeDone(last') =>
          /\ DOMAIN nodes' = DOMAIN nodes
          /\ DOMAIN edges' = DOMAIN edges \cup {last'.key}
          /\ \A e \in DOMAIN edges : edges'[e] = edges[e]
          /\ \A n \in DOMAIN nodes :
                /\ n # last'.from_node =>
                      /\ Field(Graph', n, "output_edges") = OutputEdges(n)
                      /\ Field(Graph', n, "output_nodes") = OutputNodes(n)
                /\ n # last'.to_node =>
                      /\ Field(Graph', n, "input_edges") = InputEdges(n)
                      /\ Field(Graph', n, "input_nodes") = InputNodes(n)
          /\ defaults' = defaults
      ]_vars

\* the node that has an edge to n
ParentOf(n) == CHOOSE m \in DOMAIN nodes : IsParent(m, n)

\* the places of the string out where the number n stands as a node label,
\* that is, not behind a colon
LabelPlaces(out, n) ==
    {i \in 1..Len(out) : out[i] = Num(n) /\ (i = 1 \/ out[i - 1] # Sym(":"))}

RECURSIVE NewickText(_, _)
RECURSIVE NewickTextOfChildren(_, _, _)

\* the Newick text of the subtree of n as C24 describes it, the children
\* and the parent of a node read from the edge table
NewickText(n, root) ==
    (IF \A e \in DOMAIN edges : edges[e].from_node # n
     THEN <<Num(n)>>
     ELSE <<Sym("(")>> \o NewickTextOfChildren(OutputEdges(n), 1, root)
          \o <<Sym(")"), Num(n)>>)
    \o (IF n = root THEN <<Sym(";")>>
        ELSE <<Sym(":"), Num(nodes[n].node_start - nodes[ParentOf(n)].node_start)>>)

NewickTextOfChildren(output_edges, i, root) ==
    IF i > Len(output_edges) THEN <<>>
    ELSE (IF i > 1 THEN <<Sym(",")>> ELSE <<>>)
         \o NewickText(edges[output_edges[i]].to_node, root)
         \o NewickTextOfChildren(output_edges, i + 1, root)

LookupErrors == {"IndexError", "KeyError", "RecursionError", "Exception_bounds"}

\* C25: when some node has more than two outgoing children, newick returns
\* no string and fails with an error of the domain
C25_NewickRejectsMultibranch ==
    (\E n \in DOMAIN nodes : Len(OutputNodes(n)) > 2) =>
        /\ newick(Graph).exc # "none"
        /\ newick(Graph).exc \notin LookupErrors

\* C26: on a graph with no startpoint or with more than one, newick raises
\* and returns no string
C26_NewickNeedsOneStartpoint ==
    Len(get_startpoints(Graph)) # 1 =>
        /\ newick(Graph).exc # "none"
        /\ newick(Graph).out = <<>>
        /\ Len(get_startpoints(Graph)) > 1 => newick(Graph).exc = "ValueError_startpoints"

\* a second 5' node was added to a graph that holds a translon
C26_Witness ==
    /\ last.op = "add_node"
    /\ Len(get_startpoints(Graph)) = 2
    /\ Cardinality(DOMAIN nodes) >= 6
    /\ \E n \in DOMAIN nodes : nodes[n].node_type = "start" /\ Len(OutputEdges(n)) = 2
    /\ newick(Graph).exc = "ValueError_startpoints"

NodeTypes == {"5_prime", "3_prime", "start", "stop", "frameshift", "readthrough_stop"}

\* the positions asked for
QueryPositions == StartPositions \cup StopPositions \cup {0, 10, 200}

LoadCalled(c) == c.op = "RDG" /\ c.nodes.given

\* C28: RDG(...) with a node mapping and locus_stop <= locus_start raises and
\* builds no graph, so every graph that was loaded has locus_stop > locus_start
C28_LoadRejectsLocus ==
    /\ [](LoadCalled(last) /\ last.exc = "none" => last.locus_stop > last.locus_start)
    /\ [][(LoadCalled(last') /\ last'.locus_stop <= last'.locus_start) =>
             /\ last'.exc = "ValueError_locus"
             /\ UNCHANGED <<nodes, edges, defaults>>
         ]_vars

\* a load with locus_stop equal to locus_start was refused
C28_Witness ==
    /\ LoadCalled(last)
    /\ last.locus_stop = last.locus_start
    /\ last.nodes.table = ExampleNodes /\ last.edges.table = ExampleEdges
    /\ last.exc = "ValueError_locus"
    /\ nodes # ExampleNodes

\* C29: RDG(...) with an empty node mapping or an empty edge mapping raises,
\* and no graph that was loaded has an empty node table or edge table
C29_LoadRejectsEmpty ==
    /\ [](LoadCalled(last) /\ last.exc = "none" => DOMAIN nodes # {} /\ DOMAIN edges # {})
    /\ [][(LoadCalled(last') /\ (last'.nodes.table = NoTable \/ last'.edges.table = NoTable))
             => last'.exc # "none"
         ]_vars

QueryNames ==
    {"get_translons", "get_unique_paths", "get_branch_points", "get_endpoints", "newick"}

C31_SaveLoadRoundTrip ==
    [][last'.op = "load" =>
          /\ last'.exc = "none"
          /\ DOMAIN last'.nodes = DOMAIN nodes
          /\ \A k \in DOMAIN nodes :
                /\ last'.nodes[k].node_type = nodes[k].node_type
                /\ last'.nodes[k].node_start = nodes[k].node_start
                /\ \A f \in ListFields : last'.nodes[k][f] = Field(Graph, k, f)
          /\ last'.edges = edges
      ]_vars

\* C32: on a graph grown from RDG() by splice calls every 3_prime node has
\* the position locus_stop
C32_TerminalsAtLocusStop ==
    \A n \in DOMAIN nodes :
        nodes[n].node_type = "3_prime" => nodes[n].node_start = locus_stop

\* C33: on a graph grown from RDG() by add_open_reading_frame calls every
\* translated edge runs from the position of its from-node to the position of
\* its to-node, every untranslated edge from one past the position of its
\* from-node to one before the position of its to-node, and no edge ends
\* before it starts
C33_EdgeCoordinates ==
    \A e \in DOMAIN edges :
        LET a == nodes[edges[e].from_node].node_start
            b == nodes[edges[e].to_node].node_start
        IN  /\ edges[e].edge_type = "translated" => edges[e].coordinates = <<a, b>>
            /\ edges[e].edge_type = "untranslated" => edges[e].coordinates = <<a + 1, b - 1>>
            /\ edges[e].coordinates[1] <= edges[e].coordinates[2]

\* C34: on a graph grown from RDG() by splice calls the input_nodes list of
\* every node holds at most one key
C34_SingleParent ==
    \A n \in DOMAIN nodes : Len(InputNodes(n)) <= 1

\* a frameshift node has taken the place of the start node as the one parent
\* of a stop node, and a start node that of the root as the parent of the
\* first terminal
C34_Witness ==
    /\ \E n \in DOMAIN nodes, s \in DOMAIN nodes :
          /\ nodes[n].node_type = "frameshift"
          /\ nodes[s].node_type = "stop"
          /\ InputNodes(s) = <<n>>
    /\ \E n \in DOMAIN nodes : nodes[n].node_type = "start" /\ InputNodes(2) = <<n>>
    /\ last.exc = "none"

OutDegree(n) == Cardinality({e \in DOMAIN edges : edges[e].from_node = n})

RECURSIVE NearestBranchAncestor(_)
\* the nearest proper ancestor of n, along the edge table, with more than
\* one outgoing edge; the root when there is none
NearestBranchAncestor(n) ==
    IF OutDegree(ParentOf(n)) > 1 \/ (\A e \in DOMAIN edges : edges[e].to_node # ParentOf(n))
    THEN ParentOf(n)
    ELSE NearestBranchAncestor(ParentOf(n))

C36_StartNodesBranchInTwo ==
    /\ \A n \in DOMAIN nodes :
          nodes[n].node_type = "start" =>
             /\ OutDegree(n) = 2
             /\ Len(OutputEdges(n)) = 2
             /\ \E e \in DOMAIN edges :
                   edges[e].from_node = n /\ edges[e].edge_type = "translated"
             /\ \E e \in DOMAIN edges :
                   edges[e].from_node = n /\ edges[e].edge_type = "untranslated"
    /\ SeqToSet(get_start_nodes(Graph)) = {n \in DOMAIN nodes : nodes[n].node_type = "start"}

\* two start nodes, one of them with a frameshift node as its translated
\* child
C36_Witness ==
    /\ Len(get_start_nodes(Graph)) >= 2
    /\ \E e \in DOMAIN edges :
          /\ nodes[edges[e].from_node].node_type = "start"
          /\ nodes[edges[e].to_node].node_type = "frameshift"

RECURSIVE TranslatedAbove(_)
\* the number of translated edges between the root and n in the edge table
TranslatedAbove(n) ==
    IF \A e \in DOMAIN edges : edges[e].to_node # n THEN 0
    ELSE LET e == CHOOSE x \in DOMAIN edges : edges[x].to_node = n
         IN  (IF edges[e].edge_type = "translated" THEN 1 ELSE 0)
             + TranslatedAbove(edges[e].from_node)

\* C37: when every call is add_open_reading_frame with reinitiation = False
\* and the same upstream_limit L, no path from the root to an endpoint holds
\* more than L + 1 translated edges
C37_TranslonsPerPath ==
    last.op = "add_open_reading_frame" =>
        \A i \in 1..Len(get_endpoints(Graph)) :
            TranslatedAbove(get_endpoints(Graph)[i]) <= last.upstream_limit + 1

\* with limit 1 a second translon was spliced behind the stop of a first, on
\* a graph that further calls have grown to fourteen nodes or more
C37_Witness ==
    /\ OrfDone(last)
    /\ last.upstream_limit = 1
    /\ \E i \in 1..Len(get_endpoints(Graph)) : TranslatedAbove(get_endpoints(Graph)[i]) = 2
    /\ Cardinality(DOMAIN nodes) >= 14

\* C38: on a graph grown from RDG() by splice calls the list that
\* get_translons returns holds no tuple twice
C38_TranslonsOnce ==
    \A i, j \in 1..Len(get_translons(Graph)) :
        get_translons(Graph)[i] = get_translons(Graph)[j] => i = j

\* the nodes at position p and the nodes reached from them along edges
PrunedRegion(p) ==
    LET at == {n \in DOMAIN nodes : nodes[n].node_start = p}
    IN  at \cup ReachFrom(at, {})

\* C39: prune(p) removes only the nodes at position p and their descendants,
\* with the edges at them: every other node is still in the node table, and
\* every edge between two other nodes is as it was
C39_PruneFrame ==
    [][last'.op = "prune" =>
          /\ \A n \in DOMAIN nodes \ PrunedRegion(last'.a) : n \in DOMAIN nodes'
          /\ \A e \in DOMAIN edges :
                (/\ edges[e].from_node \notin PrunedRegion(last'.a)
                 /\ edges[e].to_node \notin PrunedRegion(last'.a))
                => (e \in DOMAIN edges' /\ edges'[e] = edges[e])
      ]_vars

\* C40: prune(p) comes to an end on every graph grown from RDG() by splice
\* calls: it never nests without end
C40_PruneTerminates ==
    [][last'.op = "prune" => last'.exc # "RecursionError"]_vars

====
